---------------------------- MODULE Spec2Model ----------------------------
(***************************************************************************)
(* libmateui: the accelerator map (mate-ui-accel.c), the session           *)
(* inhibitor (mate-ui-session.c) and the window chrome and settings        *)
(* binding (mate-ui-window.c), each as a state machine of its public       *)
(* operations.  C strings are sequences of one-character strings; a        *)
(* GHashTable is the set of its <<key, value>> pairs.                      *)
(***************************************************************************)
EXTENDS Integers, Sequences, FiniteSets, TLC

(***************************************************************************)
(* Bounds of the model.                                                    *)
(***************************************************************************)
MaxCalls == 4      \* steps of a run on the accelerator map and its file
MaxEntries == 2    \* length of a MateUiAccelEntry array
MaxFileLen == 7    \* characters of an arbitrary accelerator file
MaxRTLen == 1      \* characters of an arbitrary action name or accelerator
MaxRTEntries == 2  \* bindings of an arbitrary accelerator map
MaxInhibits == 3   \* calls of mate_ui_session_inhibit in a run
MaxSets == 3       \* calls of the window's slot setters in a run
MaxBinds == 2      \* accepted calls of mate_ui_window_bind_settings in a run
MaxSize == 2       \* width and height a configure event reports
MaxIdle == 2       \* seconds of idle time, and of idle threshold
MaxSources == 2    \* calls of mate_ui_session_set_idle_callback taken in a run
MaxCbCalls == 2    \* calls of one idle callback that are counted
MaxSaveSets == 3   \* calls of mate_ui_session_set_save_callback taken in a run
MaxSubmenus == 2   \* length of a MateUiSubmenu array
MaxMenuEntries == 2 \* length of the MateUiMenuEntry array of one submenu
MaxMenuTotal == 2  \* entries of all the submenus of one array together
MaxRequests == 3   \* requests to the session manager in a run

(***************************************************************************)
(* C values.                                                               *)
(***************************************************************************)
\* The NULL string pointer: no sequence of characters equals it.
NULL_STR == <<"NULL">>

\* The NULL object pointer.
NULL == "NULL"

\* No readable file under the file name.
NoFile == <<"ENOENT">>

Min(S) == CHOOSE m \in S : \A k \in S : m <= k

Max(S) == CHOOSE m \in S : \A k \in S : m >= k

\* All sequences over S of length at most n.
SeqsUpTo(S, n) == UNION {[1..k -> S] : k \in 0..n}

\* The orders in which a hash table iterator may visit the set S.
Orderings(S) == {o \in [1..Cardinality(S) -> S] : \A i, j \in DOMAIN o : o[i] = o[j] => i = j}

(***************************************************************************)
(* GLib string functions, as mate-ui-accel.c uses them.                    *)
(***************************************************************************)
\* g_ascii_isspace: space, tab, newline, form feed, carriage return.
g_ascii_isspace(c) == c \in {" ", "\t", "\n", "\f", "\r"}

\* g_strchug: drop the leading white space.
RECURSIVE g_strchug(_)
g_strchug(s) ==
    IF s # <<>> /\ g_ascii_isspace(Head(s)) THEN g_strchug(Tail(s)) ELSE s

\* g_strchomp: drop the trailing white space.
RECURSIVE g_strchomp(_)
g_strchomp(s) ==
    IF s # <<>> /\ g_ascii_isspace(s[Len(s)])
    THEN g_strchomp(SubSeq(s, 1, Len(s) - 1))
    ELSE s

\* g_strstrip(s) is g_strchomp(g_strchug(s)).
g_strstrip(s) == g_strchomp(g_strchug(s))

\* strstr for a one-character delimiter: the first index of d in s, 0 if none.
StrChr(s, d) ==
    IF \E i \in 1..Len(s) : s[i] = d
    THEN Min({i \in 1..Len(s) : s[i] = d})
    ELSE 0

\* The tokens g_strsplit adds once the string is known not to be empty: the
\* remainder goes whole into the last token when max_tokens runs out.
RECURSIVE SplitTokens(_, _, _)
SplitTokens(s, d, max_tokens) ==
    IF max_tokens = 1 \/ StrChr(s, d) = 0
    THEN <<s>>
    ELSE <<SubSeq(s, 1, StrChr(s, d) - 1)>>
         \o SplitTokens(SubSeq(s, StrChr(s, d) + 1, Len(s)), d, max_tokens - 1)

\* g_strsplit(string, delimiter, max_tokens): the empty string has no tokens;
\* max_tokens < 1 splits completely.
g_strsplit(s, d, max_tokens) ==
    IF s = <<>> THEN <<>> ELSE SplitTokens(s, d, IF max_tokens < 1 THEN 0 ELSE max_tokens)

(***************************************************************************)
(* GHashTable with g_str_hash/g_str_equal: keys are compared by content.   *)
(***************************************************************************)
\* g_hash_table_insert keeping the old value beside the new one.
HashInsertKeepsOld(t, k, v) == t \cup {<<k, v>>}

\* g_hash_table_insert: the value of an existing key is replaced.
g_hash_table_insert(t, k, v) == {p \in t : p[1] # k} \cup {<<k, v>>}

\* g_hash_table_remove.
g_hash_table_remove(t, k) == {p \in t : p[1] # k}

\* g_hash_table_lookup: the value of the key, NULL when the key is absent.
g_hash_table_lookup(t, k) ==
    IF \E p \in t : p[1] = k THEN (CHOOSE p \in t : p[1] = k)[2] ELSE NULL_STR

(***************************************************************************)
(* The accelerator map: struct _MateUiAccelMap { GHashTable *accels; }.    *)
(***************************************************************************)
\* mate_ui_accel_map_add: NULL arguments are refused by g_return_if_fail.
mate_ui_accel_map_add(map, action_name, accel) ==
    IF action_name = NULL_STR \/ accel = NULL_STR
    THEN map
    ELSE g_hash_table_insert(map, action_name, accel)

\* mate_ui_accel_map_add_entries: add entries[0..n_entries-1] in array order.
RECURSIVE mate_ui_accel_map_add_entries(_, _)
mate_ui_accel_map_add_entries(map, entries) ==
    IF entries = <<>>
    THEN map
    ELSE mate_ui_accel_map_add_entries(
             mate_ui_accel_map_add(map, Head(entries)[1], Head(entries)[2]),
             Tail(entries))

\* mate_ui_accel_map_remove.
mate_ui_accel_map_remove(map, action_name) ==
    IF action_name = NULL_STR THEN map ELSE g_hash_table_remove(map, action_name)

\* mate_ui_accel_map_get.
mate_ui_accel_map_get(map, action_name) ==
    IF action_name = NULL_STR THEN NULL_STR ELSE g_hash_table_lookup(map, action_name)

\* The loop body of mate_ui_accel_map_load splitting at the last '='.
LoadLineSplitsAll(lineRaw) ==
    LET line == g_strstrip(lineRaw)
        parts == g_strsplit(line, "=", 0)
    IN  IF line = <<>> \/ line[1] = "#" \/ Len(parts) < 2
        THEN <<>>
        ELSE LET action == g_strstrip(parts[1])
                 accel == g_strstrip(parts[2])
             IN  IF action # <<>> /\ accel # <<>> THEN <<<<action, accel>>>> ELSE <<>>

\* The loop body of mate_ui_accel_map_load on one line: the entries it adds
\* (none or one).
LoadLine(lineRaw) ==
    LET line == g_strstrip(lineRaw)
        parts == g_strsplit(line, "=", 2)
    IN  IF line = <<>> \/ line[1] = "#" \/ Len(parts) < 2
        THEN <<>>
        ELSE LET action == g_strstrip(parts[1])
                 accel == g_strstrip(parts[2])
             IN  IF action # <<>> /\ accel # <<>> THEN <<<<action, accel>>>> ELSE <<>>

\* The entries mate_ui_accel_map_load adds for the lines, in file order.
RECURSIVE LoadLines(_)
LoadLines(lines) ==
    IF lines = <<>> THEN <<>> ELSE LoadLine(Head(lines)) \o LoadLines(Tail(lines))

\* The entries mate_ui_accel_map_load adds for the contents of a file.
LoadEntries(contents) == LoadLines(g_strsplit(contents, "\n", -1))

\* mate_ui_accel_map_load emptying the map before it reads the file.
LoadClearsFirst(map, contents) ==
    IF contents = NoFile
    THEN [ret |-> "FALSE", err |-> TRUE, map |-> {}]
    ELSE [ret |-> "TRUE", err |-> FALSE,
          map |-> mate_ui_accel_map_add_entries({}, LoadEntries(contents))]

\* mate_ui_accel_map_load: FALSE with the error set when g_file_get_contents
\* fails; else every line is processed and TRUE is returned.
mate_ui_accel_map_load(map, contents) ==
    IF contents = NoFile
    THEN [ret |-> "FALSE", err |-> TRUE, map |-> map]
    ELSE [ret |-> "TRUE", err |-> FALSE,
          map |-> mate_ui_accel_map_add_entries(map, LoadEntries(contents))]

\* The two comment lines and the blank line mate_ui_accel_map_save writes first.
SaveHeader ==
    <<"#", " ", "M", "A", "T", "E", " ", "U", "I", " ", "A", "c", "c", "e", "l",
      "e", "r", "a", "t", "o", "r", " ", "M", "a", "p", "\n">>
    \o <<"#", " ", "F", "o", "r", "m", "a", "t", ":", " ", "a", "c", "t", "i", "o",
         "n", "_", "n", "a", "m", "e", "=", "a", "c", "c", "e", "l", "e", "r", "a",
         "t", "o", "r", "\n", "\n">>

\* g_string_append_printf(content, "%s=%s\n", key, value) for each entry.
RECURSIVE FormatEntries(_)
FormatEntries(entries) ==
    IF entries = <<>>
    THEN <<>>
    ELSE Head(entries)[1] \o <<"=">> \o Head(entries)[2] \o <<"\n">>
         \o FormatEntries(Tail(entries))

\* What mate_ui_accel_map_save returns: the result of g_file_set_contents.
SaveResult(written) == IF written THEN "TRUE" ELSE "FALSE"

\* The text mate_ui_accel_map_save writes when the iterator visits the
\* entries in the given order.
mate_ui_accel_map_save(order) == SaveHeader \o FormatEntries(order)

(***************************************************************************)
(* Inputs of the accelerator operations.                                   *)
(***************************************************************************)
ActionNames == {<<"q">>, <<"n">>}

AccelStrs == {<<"F", "1">>, <<"F", "2">>}

\* MateUiAccelEntry arrays.
EntryArrays == SeqsUpTo(ActionNames \X AccelStrs, MaxEntries)

\* Files another program left under the file name: none, or one key=value line.
ForeignFiles == {NoFile} \cup {FormatEntries(<<e>>) : e \in ActionNames \X AccelStrs}

\* The characters of arbitrary files, action names and accelerators.
FileChars == {"a", "=", " ", "#", "\n"}

VARIABLES
    accels,     \* map->accels of the one MateUiAccelMap
    file,       \* the contents of the accelerator file, or NoFile
    ret,        \* what the last call returned
    err,        \* whether the last call set *error
    io,         \* whether the last call's file operation worked: "ok", "fail", "-"
    call,       \* the last call: its name and its action-name argument
    pre,        \* map->accels before the last call
    lastEv,     \* per action name, the accelerator of its latest add, NULL_STR after a remove
    saved,      \* the bindings the last successful save wrote into the file
    fileFrom,   \* who wrote the file: "save", "foreign"
    ncalls      \* steps made so far

accelVars == <<accels, file, ret, err, io, call, pre, lastEv, saved, fileFrom, ncalls>>

VARIABLES
    proxy,        \* the static proxy of get_session_manager_proxy, or NULL
    inhibitors,   \* the allocated MateUiSessionInhibitor structs, by address
    gtkInhibits,  \* the inhibitions the GtkApplications hold: [app, cookie, flags]
    smInhibits,   \* the inhibitions the session manager holds: [cookie, flags]
    gtkNext,      \* the cookie the next successful gtk_application_inhibit returns
    smNext,       \* the cookie the next Inhibit reply carries
    nextAddr,     \* the address of the next struct g_new0 returns
    sCall,        \* the last session call and its argument
    sRet,         \* the inhibitor the last mate_ui_session_inhibit returned (0: NULL)
    smKept,       \* cookies whose Uninhibit call returned an error
    regOf         \* per returned inhibitor, what its inhibit call registered and where

sessionVars ==
    <<proxy, inhibitors, gtkInhibits, smInhibits, gtkNext, smNext, nextAddr, sCall, sRet, smKept,
      regOf>>

VARIABLES
    menubar,            \* priv->menubar: a widget or NULL
    toolbar,            \* priv->toolbar
    content,            \* priv->content
    statusbar,          \* priv->statusbar
    children,           \* the children of priv->main_box, as gtk_container_get_children lists them
    refs,               \* the reference count of each widget, 0 once it is finalized
    floating,           \* whether the widget's initial reference is still floating
    crashed,            \* the process died using a finalized widget
    settings,           \* priv->settings: a GSettings object or NULL
    width_key,          \* priv->width_key
    height_key,         \* priv->height_key
    maximized_key,      \* priv->maximized_key
    configure_handler,  \* priv->configure_handler
    state_handler,      \* priv->state_handler
    handlers,           \* the handlers connected to the window: [id, signal]
    nextHandler,        \* the id the next g_signal_connect returns
    store,              \* the value of each key of each GSettings object
    realized,           \* whether gtk_widget_get_window(window) is non-NULL
    gdkState,           \* gdk_window_get_state: the GdkWindowState bits that are set
    maxChanged,         \* a MAXIMIZED change was handled since the last bind_settings
    lastBind,           \* the arguments of the latest mate_ui_window_bind_settings call taken
    wCall,              \* the last window call or event and its argument
    nsets               \* slot setter calls made so far

layoutVars == <<menubar, toolbar, content, statusbar, children, refs, floating, crashed>>

bindingVars ==
    <<settings, width_key, height_key, maximized_key, configure_handler, state_handler,
      handlers, nextHandler>>

gdkVars == <<store, realized, gdkState, maxChanged>>

windowVars == <<layoutVars, bindingVars, gdkVars, lastBind, wCall, nsets>>

VARIABLES
    xss,          \* whether the XScreenSaver branch of mate_ui_session_get_idle_time is taken
    userIdle,     \* how long the user has been idle
    idleSources,  \* the IdleCallbackData of the timeout sources that are attached
    nextSource,   \* the id the next g_timeout_add_seconds_full returns
    cbCalls,      \* per source id, how often its callback was called
    destroyed,    \* per source id, how often destroy(user_data) was called
    iCall         \* the last idle call or dispatch

idleVars == <<xss, userIdle, idleSources, nextSource, cbCalls, destroyed, iCall>>

VARIABLES
    saveData,       \* per application, the SaveCallbackData under "mate-ui-save-callback"
    nextSaveData,   \* the address of the next SaveCallbackData
    saveCalls,      \* per SaveCallbackData, how often its callback was called
    saveDestroyed,  \* per SaveCallbackData, how often destroy(user_data) was called
    svCall          \* the last save-callback call or session manager request

saveVars == <<saveData, nextSaveData, saveCalls, saveDestroyed, svCall>>

VARIABLES
    mSubmenus,  \* the MateUiSubmenu array the caller holds
    mGroup,     \* the GtkAccelGroup the caller passes, or NULL
    mCall       \* the last menu builder call: its arguments and what it returned
menuVars == <<mSubmenus, mGroup, mCall>>

VARIABLES
    smServed,   \* the requests the session manager has replied to, as it got them
    rCall,      \* the last request function called, what happened and what it returned
    nreq        \* requests made so far
reqVars == <<smServed, rCall, nreq>>

VARIABLES
    appAccels   \* per action name, the application's accelerators for the action
appVars == <<appAccels>>

restVars == <<menuVars, reqVars, appVars>>

laterVars == <<idleVars, saveVars, restVars>>

vars == <<accelVars, sessionVars, windowVars, laterVars>>

\* lastEv after the adds of the entries, in order.
RECURSIVE NoteAdds(_, _)
NoteAdds(ev, entries) ==
    IF entries = <<>>
    THEN ev
    ELSE NoteAdds(
             IF Head(entries)[1] = NULL_STR \/ Head(entries)[2] = NULL_STR
             THEN ev
             ELSE (Head(entries)[1] :> Head(entries)[2]) @@ ev,
             Tail(entries))

Called(name, arg) ==
    /\ UNCHANGED <<sessionVars, windowVars, laterVars>>
    /\ ncalls < MaxCalls
    /\ ncalls' = ncalls + 1
    /\ call' = [op |-> name, name |-> arg]
    /\ pre' = accels

\* mate_ui_accel_map_new: a new, empty map takes the place of the old one.
AccelMapNew ==
    /\ Called("new", NULL_STR)
    /\ accels' = {}
    /\ lastEv' = <<>>
    /\ ret' = "void" /\ err' = FALSE /\ io' = "-"
    /\ UNCHANGED <<file, saved, fileFrom>>

AccelMapAdd ==
    \E n \in ActionNames \cup {NULL_STR}, a \in AccelStrs \cup {NULL_STR} :
        /\ Called("add", n)
        /\ accels' = mate_ui_accel_map_add(accels, n, a)
        /\ lastEv' = NoteAdds(lastEv, <<<<n, a>>>>)
        /\ ret' = "void" /\ err' = FALSE /\ io' = "-"
        /\ UNCHANGED <<file, saved, fileFrom>>

AccelMapAddEntries ==
    \E entries \in EntryArrays :
        /\ Called("add_entries", NULL_STR)
        /\ accels' = mate_ui_accel_map_add_entries(accels, entries)
        /\ lastEv' = NoteAdds(lastEv, entries)
        /\ ret' = "void" /\ err' = FALSE /\ io' = "-"
        /\ UNCHANGED <<file, saved, fileFrom>>

AccelMapRemove ==
    \E n \in ActionNames \cup {NULL_STR} :
        /\ Called("remove", n)
        /\ accels' = mate_ui_accel_map_remove(accels, n)
        /\ lastEv' = IF n = NULL_STR THEN lastEv ELSE (n :> NULL_STR) @@ lastEv
        /\ ret' = "void" /\ err' = FALSE /\ io' = "-"
        /\ UNCHANGED <<file, saved, fileFrom>>

AccelMapLoad ==
    /\ Called("load", NULL_STR)
    /\ accels' = mate_ui_accel_map_load(accels, file).map
    /\ ret' = mate_ui_accel_map_load(accels, file).ret
    /\ err' = mate_ui_accel_map_load(accels, file).err
    /\ lastEv' = IF file = NoFile THEN lastEv ELSE NoteAdds(lastEv, LoadEntries(file))
    /\ io' = IF file = NoFile THEN "fail" ELSE "ok"
    /\ UNCHANGED <<file, saved, fileFrom>>

\* mate_ui_accel_map_save: the entries in the iterator's order; the result is
\* that of g_file_set_contents, which replaces the file or fails and leaves it.
AccelMapSave ==
    \E order \in Orderings(accels), written \in BOOLEAN :
        /\ Called("save", NULL_STR)
        /\ io' = IF written THEN "ok" ELSE "fail"
        /\ file' = IF written THEN mate_ui_accel_map_save(order) ELSE file
        /\ saved' = IF written THEN accels ELSE saved
        /\ fileFrom' = IF written THEN "save" ELSE fileFrom
        /\ ret' = SaveResult(written)
        /\ err' = ~written
        /\ UNCHANGED <<accels, lastEv>>

\* Another program replaces or removes the file.
ForeignWrite ==
    \E f \in ForeignFiles :
        /\ f # file
        /\ Called("foreign", NULL_STR)
        /\ file' = f
        /\ fileFrom' = "foreign"
        /\ UNCHANGED <<accels, ret, err, io, lastEv, saved>>

InitAccelRest ==
    /\ ret = "void" /\ err = FALSE /\ io = "-"
    /\ call = [op |-> "none", name |-> NULL_STR]
    /\ pre = {}
    /\ lastEv = <<>>
    /\ saved = {}
    /\ ncalls = 0

\* After mate_ui_accel_map_new, with no accelerator file yet.
InitAccel ==
    /\ accels = {}
    /\ file = NoFile
    /\ fileFrom = "foreign"
    /\ InitAccelRest

NextAccel ==
    \/ AccelMapNew
    \/ AccelMapAdd
    \/ AccelMapAddEntries
    \/ AccelMapRemove
    \/ AccelMapLoad
    \/ AccelMapSave
    \/ ForeignWrite

(***************************************************************************)
(* The session inhibitor: mate_ui_session_inhibit and                      *)
(* mate_ui_session_uninhibit, with the GtkApplication and the session      *)
(* manager as the two places an inhibition can be registered.              *)
(***************************************************************************)
MATE_UI_INHIBIT_LOGOUT == 1

MATE_UI_INHIBIT_USER_SWITCH == 2

MATE_UI_INHIBIT_SUSPEND == 4

MATE_UI_INHIBIT_IDLE == 8

\* flags & bit, for a bit that is a power of two.
HasFlag(flags, bit) == (flags \div bit) % 2 = 1

\* convert_inhibit_flags: our flags as GSM_INHIBITOR_FLAG_* bits.
convert_inhibit_flags(flags) ==
    (IF HasFlag(flags, MATE_UI_INHIBIT_LOGOUT) THEN 1 ELSE 0)
    + (IF HasFlag(flags, MATE_UI_INHIBIT_USER_SWITCH) THEN 2 ELSE 0)
    + (IF HasFlag(flags, MATE_UI_INHIBIT_SUSPEND) THEN 4 ELSE 0)
    + (IF HasFlag(flags, MATE_UI_INHIBIT_IDLE) THEN 8 ELSE 0)

\* The GtkApplicationInhibitFlags mate_ui_session_inhibit builds:
\* GTK_APPLICATION_INHIBIT_LOGOUT 1, _SWITCH 2, _SUSPEND 4, _IDLE 8.
GtkInhibitFlags(flags) ==
    (IF HasFlag(flags, MATE_UI_INHIBIT_LOGOUT) THEN 1 ELSE 0)
    + (IF HasFlag(flags, MATE_UI_INHIBIT_USER_SWITCH) THEN 2 ELSE 0)
    + (IF HasFlag(flags, MATE_UI_INHIBIT_SUSPEND) THEN 4 ELSE 0)
    + (IF HasFlag(flags, MATE_UI_INHIBIT_IDLE) THEN 8 ELSE 0)

\* g_new0(MateUiSessionInhibitor, 1) with inhibitor->flags set.
NewInhibitor(addr, flags) ==
    [addr |-> addr, app |-> NULL, cookie |-> 0, flags |-> flags,
     is_dbus |-> FALSE, dbus_cookie |-> 0]

\* mate_ui_session_inhibit going on to the session manager after the
\* GtkApplication has taken the inhibition.
InhibitFallsThrough(addr, app, flags, reason, gtkCookie, proxyNow, reply) ==
    LET gtk == reason # NULL_STR /\ app # NULL
        asked == reason # NULL_STR
        dbus == asked /\ proxyNow # NULL
    IN  [gtk |-> gtk, asked |-> asked, dbus |-> dbus,
         handle |->
             IF dbus /\ reply.ok
             THEN [NewInhibitor(addr, flags) EXCEPT
                      !.cookie = IF gtk THEN gtkCookie ELSE 0,
                      !.is_dbus = TRUE, !.dbus_cookie = reply.cookie]
             ELSE IF gtk /\ gtkCookie # 0
             THEN [NewInhibitor(addr, flags) EXCEPT !.cookie = gtkCookie, !.app = app]
             ELSE NewInhibitor(0, flags)]

\* mate_ui_session_inhibit: whether it calls gtk_application_inhibit, whether
\* it asks for the proxy, whether it makes the D-Bus Inhibit call, and the
\* struct it returns (address 0: the struct is freed and NULL returned).
\* gtkCookie is what gtk_application_inhibit returns, proxyNow what
\* get_session_manager_proxy returns, reply what the Inhibit call gives.
mate_ui_session_inhibit(addr, app, flags, reason, gtkCookie, proxyNow, reply) ==
    LET gtk == reason # NULL_STR /\ app # NULL
        asked == reason # NULL_STR /\ ~(gtk /\ gtkCookie # 0)
        dbus == asked /\ proxyNow # NULL
    IN  [gtk |-> gtk, asked |-> asked, dbus |-> dbus,
         handle |->
             IF gtk /\ gtkCookie # 0
             THEN [NewInhibitor(addr, flags) EXCEPT !.cookie = gtkCookie, !.app = app]
             ELSE IF dbus /\ reply.ok
             THEN [NewInhibitor(addr, flags) EXCEPT
                      !.cookie = IF gtk THEN gtkCookie ELSE 0,
                      !.is_dbus = TRUE, !.dbus_cookie = reply.cookie]
             ELSE NewInhibitor(0, flags)]

\* mate_ui_session_uninhibit handing inhibitor->cookie to the Uninhibit call.
UninhibitWrongCookie(h) ==
    IF ~h.is_dbus /\ h.app # NULL
    THEN [chan |-> "gtk", app |-> h.app, cookie |-> h.cookie]
    ELSE IF h.is_dbus
    THEN [chan |-> "dbus", app |-> NULL, cookie |-> h.cookie]
    ELSE [chan |-> "none", app |-> NULL, cookie |-> 0]

\* mate_ui_session_uninhibit on a non-NULL inhibitor: the call it makes,
\* gtk_application_uninhibit(app, cookie) or Uninhibit(dbus_cookie).
mate_ui_session_uninhibit(h) ==
    IF ~h.is_dbus /\ h.app # NULL
    THEN [chan |-> "gtk", app |-> h.app, cookie |-> h.cookie]
    ELSE IF h.is_dbus
    THEN [chan |-> "dbus", app |-> NULL, cookie |-> h.dbus_cookie]
    ELSE [chan |-> "none", app |-> NULL, cookie |-> 0]

Apps == {"app"}

InhibitFlagSets == {MATE_UI_INHIBIT_SUSPEND, MATE_UI_INHIBIT_SUSPEND + MATE_UI_INHIBIT_IDLE}

Reasons == {<<"r">>}

\* get_session_manager_proxy: the static proxy, created on first use when
\* g_dbus_proxy_new_for_bus_sync works.
get_session_manager_proxy(created) ==
    IF proxy = NULL THEN (IF created THEN "proxy" ELSE NULL) ELSE proxy

\* gtkOk, created and replyOk are what gtk_application_inhibit,
\* g_dbus_proxy_new_for_bus_sync and the Inhibit call do when they are called.
SessionInhibit ==
    \E app \in Apps \cup {NULL}, flags \in InhibitFlagSets, reason \in Reasons \cup {NULL_STR},
       gtkOk \in BOOLEAN, created \in BOOLEAN, replyOk \in BOOLEAN :
        LET gtkCookie == IF gtkOk THEN gtkNext ELSE 0
            proxyNow == get_session_manager_proxy(created)
            reply == [ok |-> replyOk, cookie |-> smNext]
            r == mate_ui_session_inhibit(nextAddr, app, flags, reason, gtkCookie, proxyNow, reply)
            gtkDone == r.gtk /\ gtkCookie # 0
            smDone == r.dbus /\ reply.ok
        IN  /\ UNCHANGED <<accelVars, windowVars, laterVars>>
            /\ nextAddr <= MaxInhibits
            \* what a call that is not made would have done does not matter
            /\ ~r.gtk => ~gtkOk
            /\ (~r.asked \/ proxy # NULL) => created
            /\ ~r.dbus => ~replyOk
            /\ sCall' = [op |-> "inhibit", arg |-> 0]
            /\ nextAddr' = IF reason = NULL_STR THEN nextAddr ELSE nextAddr + 1
            /\ proxy' = IF r.asked THEN proxyNow ELSE proxy
            /\ gtkInhibits' =
                   IF gtkDone
                   THEN gtkInhibits \cup
                        {[app |-> app, cookie |-> gtkCookie, flags |-> GtkInhibitFlags(flags)]}
                   ELSE gtkInhibits
            /\ gtkNext' = IF gtkDone THEN gtkNext + 1 ELSE gtkNext
            /\ smInhibits' =
                   IF smDone
                   THEN smInhibits \cup
                        {[cookie |-> reply.cookie, flags |-> convert_inhibit_flags(flags)]}
                   ELSE smInhibits
            /\ smNext' = IF smDone THEN smNext + 1 ELSE smNext
            /\ inhibitors' = IF r.handle.addr = 0 THEN inhibitors ELSE inhibitors \cup {r.handle}
            /\ sRet' = r.handle.addr
            /\ regOf' =
                   IF r.handle.addr = 0
                   THEN regOf
                   ELSE regOf \cup
                        {[addr |-> r.handle.addr, gtk |-> gtkDone, sm |-> smDone,
                          app |-> app, gtkCookie |-> gtkCookie, smCookie |-> reply.cookie]}
            /\ UNCHANGED smKept

\* mate_ui_session_uninhibit(NULL) returns at once.
SessionUninhibitNull ==
    /\ UNCHANGED <<accelVars, windowVars, laterVars>>
    /\ sCall.op # "uninhibit_null"
    /\ sCall' = [op |-> "uninhibit_null", arg |-> 0]
    /\ UNCHANGED <<proxy, inhibitors, gtkInhibits, smInhibits, gtkNext, smNext, nextAddr,
                   sRet, smKept, regOf>>

\* mate_ui_session_uninhibit on an inhibitor the caller still holds: the
\* struct is freed whatever the Uninhibit call answers.
SessionUninhibit ==
    \E h \in inhibitors, created \in BOOLEAN, replyOk \in BOOLEAN :
        LET u == mate_ui_session_uninhibit(h)
            proxyNow == get_session_manager_proxy(created)
            sent == u.chan = "dbus" /\ proxyNow # NULL
        IN  /\ UNCHANGED <<accelVars, windowVars, laterVars>>
            /\ (u.chan # "dbus" \/ proxy # NULL) => created
            /\ ~sent => replyOk
            /\ sCall' = [op |-> "uninhibit", arg |-> h.addr]
            /\ proxy' = IF u.chan = "dbus" THEN proxyNow ELSE proxy
            /\ gtkInhibits' =
                   IF u.chan = "gtk"
                   THEN {g \in gtkInhibits : ~(g.app = u.app /\ g.cookie = u.cookie)}
                   ELSE gtkInhibits
            /\ smInhibits' =
                   IF sent /\ replyOk
                   THEN {m \in smInhibits : m.cookie # u.cookie}
                   ELSE smInhibits
            /\ smKept' = IF sent /\ ~replyOk THEN smKept \cup {u.cookie} ELSE smKept
            /\ inhibitors' = inhibitors \ {h}
            /\ UNCHANGED <<gtkNext, smNext, nextAddr, sRet, regOf>>

\* Before the first session call: no proxy, nothing inhibited.
InitSession ==
    /\ proxy = NULL
    /\ inhibitors = {}
    /\ gtkInhibits = {}
    /\ smInhibits = {}
    /\ gtkNext = 1
    /\ smNext = 1
    /\ nextAddr = 1
    /\ sCall = [op |-> "none", arg |-> 0]
    /\ sRet = 0
    /\ smKept = {}
    /\ regOf = {}

NextSession ==
    \/ SessionInhibit
    \/ SessionUninhibitNull
    \/ SessionUninhibit

(***************************************************************************)
(* The window: the four chrome slots of MateUiWindowPrivate and the        *)
(* GtkBox main_box that mate_ui_window_rebuild_layout refills.  A widget   *)
(* lives while its reference count is positive; the box holds one          *)
(* reference to each child, the window one to its menubar only.            *)
(***************************************************************************)
MenuBars == {"menubar", "menubar_own"}

Toolbars == {"toolbar", "toolbar_own"}

Others == {"box", "statusbar_own"}

Widgets == MenuBars \cup Toolbars \cup Others

\* The widgets the caller keeps a reference of its own to; the others are
\* handed over as gtk_*_new returned them, floating, as demo-app.c does.
CallerOwned == {"menubar_own", "toolbar_own", "statusbar_own"}

GTK_IS_MENU_BAR(w) == w \in MenuBars

GTK_IS_TOOLBAR(w) == w \in Toolbars

GTK_IS_WIDGET(w) == w \in Widgets

\* What using a finalized widget does: GTK's type check fails and the call
\* is refused with a critical, the freed memory still passes for a widget,
\* or the process dies.
UseAfterFree == {"rejected", "packed", "crashed"}

\* The layout state the window functions work on.
Layout ==
    [menubar |-> menubar, toolbar |-> toolbar, content |-> content, statusbar |-> statusbar,
     children |-> children, refs |-> refs, floating |-> floating, crashed |-> crashed]

g_object_ref_sink(L, w) ==
    IF L.floating[w]
    THEN [L EXCEPT !.floating[w] = FALSE]
    ELSE [L EXCEPT !.refs[w] = @ + 1]

g_object_unref(L, w) == [L EXCEPT !.refs[w] = @ - 1]

Finalized(L, w) == L.refs[w] = 0

IsChild(L, w) == \E i \in DOMAIN L.children : L.children[i] = w

\* gtk_container_remove: the box drops the child and its reference to it,
\* which finalizes a widget nobody else holds.
gtk_container_remove(L, w) ==
    LET out == [L EXCEPT !.children = SelectSeq(@, LAMBDA c : c # w)]
    IN  IF Finalized(L, w) THEN out ELSE g_object_unref(out, w)

\* The loop over gtk_container_get_children.
RECURSIVE RemoveChildren(_, _)
RemoveChildren(L, list) ==
    IF list = <<>>
    THEN L
    ELSE RemoveChildren(gtk_container_remove(L, Head(list)), Tail(list))

\* gtk_box_pack_start / gtk_box_pack_end: a widget that already has a parent
\* is refused; otherwise it is appended and the box takes a reference,
\* sinking a floating one.  ub is what happens if the widget is finalized.
gtk_box_pack(L, w, ub) ==
    IF IsChild(L, w)
    THEN L
    ELSE IF Finalized(L, w)
    THEN CASE ub = "packed" -> [L EXCEPT !.children = Append(@, w)]
           [] ub = "crashed" -> [L EXCEPT !.crashed = TRUE]
           [] OTHER -> L
    ELSE g_object_ref_sink([L EXCEPT !.children = Append(@, w)], w)

\* One "if (priv->slot != NULL) pack, show" block.
PackSlot(L, w, ub) == IF w = NULL \/ L.crashed THEN L ELSE gtk_box_pack(L, w, ub)

mate_ui_window_rebuild_layout(L, ub) ==
    LET removed == RemoveChildren(L, L.children)
        m == PackSlot(removed, removed.menubar, ub)
        t == PackSlot(m, m.toolbar, ub)
        c == PackSlot(t, t.content, ub)
    IN  PackSlot(c, c.statusbar, ub)

mate_ui_window_set_menubar(L, w, ub) ==
    IF ~(w = NULL \/ GTK_IS_MENU_BAR(w))
    THEN L
    ELSE IF L.menubar = w
    THEN L
    ELSE LET a == IF L.menubar # NULL THEN g_object_unref(L, L.menubar) ELSE L
             b == [a EXCEPT !.menubar = w]
             c == IF w # NULL THEN g_object_ref_sink(b, w) ELSE b
         IN  mate_ui_window_rebuild_layout(c, ub)

mate_ui_window_set_toolbar(L, w, ub) ==
    IF ~(w = NULL \/ GTK_IS_TOOLBAR(w))
    THEN L
    ELSE IF L.toolbar = w
    THEN L
    ELSE mate_ui_window_rebuild_layout([L EXCEPT !.toolbar = w], ub)

\* mate_ui_window_set_content taking NULL as the other setters do.
SetContentTakesNull(L, w, ub) ==
    IF ~(w = NULL \/ GTK_IS_WIDGET(w))
    THEN L
    ELSE IF L.content = w
    THEN L
    ELSE mate_ui_window_rebuild_layout([L EXCEPT !.content = w], ub)

mate_ui_window_set_content(L, w, ub) ==
    IF ~GTK_IS_WIDGET(w)
    THEN L
    ELSE IF L.content = w
    THEN L
    ELSE mate_ui_window_rebuild_layout([L EXCEPT !.content = w], ub)

mate_ui_window_set_statusbar(L, w, ub) ==
    IF L.statusbar = w
    THEN L
    ELSE mate_ui_window_rebuild_layout([L EXCEPT !.statusbar = w], ub)

\* A setter has run and left the layout state L.
SetterCalled(op, w, L) ==
    /\ nsets < MaxSets
    /\ nsets' = nsets + 1
    /\ wCall' = [op |-> op, arg |-> w]
    /\ menubar' = L.menubar
    /\ toolbar' = L.toolbar
    /\ content' = L.content
    /\ statusbar' = L.statusbar
    /\ children' = L.children
    /\ refs' = L.refs
    /\ floating' = L.floating
    /\ crashed' = L.crashed
    /\ UNCHANGED <<bindingVars, gdkVars, lastBind, accelVars, sessionVars, laterVars>>

\* What the callers pass to each setter: NULL, widgets of the documented
\* type and, where the setter checks the type, one widget of another type.
MenubarArgs == MenuBars \cup {"toolbar_own", NULL}

ToolbarArgs == Toolbars \cup {"box", NULL}

ContentArgs == Others \cup {NULL}

StatusbarArgs == Others \cup {NULL}

\* What the caller may pass: NULL or a widget that is alive.
Passable(w) == IF w = NULL THEN TRUE ELSE refs[w] > 0

\* The setters: ub is drawn only when the call uses a finalized widget.
WindowSetMenubar ==
    \E w \in MenubarArgs, ub \in UseAfterFree :
        /\ ~crashed
        /\ Passable(w)
        /\ ~mate_ui_window_set_menubar(Layout, w, "crashed").crashed => ub = "rejected"
        /\ SetterCalled("set_menubar", w, mate_ui_window_set_menubar(Layout, w, ub))

WindowSetToolbar ==
    \E w \in ToolbarArgs, ub \in UseAfterFree :
        /\ ~crashed
        /\ Passable(w)
        /\ ~mate_ui_window_set_toolbar(Layout, w, "crashed").crashed => ub = "rejected"
        /\ SetterCalled("set_toolbar", w, mate_ui_window_set_toolbar(Layout, w, ub))

WindowSetContent ==
    \E w \in ContentArgs, ub \in UseAfterFree :
        /\ ~crashed
        /\ Passable(w)
        /\ ~mate_ui_window_set_content(Layout, w, "crashed").crashed => ub = "rejected"
        /\ SetterCalled("set_content", w, mate_ui_window_set_content(Layout, w, ub))

WindowSetStatusbar ==
    \E w \in StatusbarArgs, ub \in UseAfterFree :
        /\ ~crashed
        /\ Passable(w)
        /\ ~mate_ui_window_set_statusbar(Layout, w, "crashed").crashed => ub = "rejected"
        /\ SetterCalled("set_statusbar", w, mate_ui_window_set_statusbar(Layout, w, ub))

(***************************************************************************)
(* The settings binding of the window and the two signal handlers it       *)
(* connects.                                                               *)
(***************************************************************************)
SettingsObjs == {"gs1", "gs2"}

G_IS_SETTINGS(s) == s \in SettingsObjs

\* The binding fields of MateUiWindowPrivate and the signal connections.
Binding ==
    [settings |-> settings, width_key |-> width_key, height_key |-> height_key,
     maximized_key |-> maximized_key, configure_handler |-> configure_handler,
     state_handler |-> state_handler, handlers |-> handlers, nextHandler |-> nextHandler]

g_signal_handler_disconnect(B, id) == [B EXCEPT !.handlers = {h \in @ : h.id # id}]

\* mate_ui_window_bind_settings leaving the handlers of the previous binding
\* connected.
BindKeepsHandlers(B, s, wk, hk, mk) ==
    IF ~G_IS_SETTINGS(s)
    THEN B
    ELSE [B EXCEPT !.settings = s, !.width_key = wk, !.height_key = hk,
                   !.maximized_key = mk,
                   !.configure_handler = B.nextHandler,
                   !.state_handler = B.nextHandler + 1,
                   !.handlers = @ \cup {[id |-> B.nextHandler, signal |-> "configure-event"],
                                        [id |-> B.nextHandler + 1,
                                         signal |-> "window-state-event"]},
                   !.nextHandler = @ + 2]

mate_ui_window_bind_settings(B, s, wk, hk, mk) ==
    IF ~G_IS_SETTINGS(s)
    THEN B
    ELSE LET c == IF B.configure_handler > 0
                  THEN [g_signal_handler_disconnect(B, B.configure_handler)
                           EXCEPT !.configure_handler = 0]
                  ELSE B
             d == IF c.state_handler > 0
                  THEN [g_signal_handler_disconnect(c, c.state_handler)
                           EXCEPT !.state_handler = 0]
                  ELSE c
         IN  [d EXCEPT !.settings = s, !.width_key = wk, !.height_key = hk,
                       !.maximized_key = mk,
                       !.configure_handler = d.nextHandler,
                       !.state_handler = d.nextHandler + 1,
                       !.handlers = @ \cup {[id |-> d.nextHandler, signal |-> "configure-event"],
                                            [id |-> d.nextHandler + 1,
                                             signal |-> "window-state-event"]},
                       !.nextHandler = @ + 2]

g_settings_set(st, s, key, value) == [st EXCEPT ![s][key] = value]

\* The configure-event handler without its look at the window state.
ConfigureIgnoresState(B, hasWindow, state, st, width, height) ==
    IF B.settings = NULL
    THEN st
    ELSE LET a == IF B.width_key # NULL
                  THEN g_settings_set(st, B.settings, B.width_key, width)
                  ELSE st
         IN  IF B.height_key # NULL
             THEN g_settings_set(a, B.settings, B.height_key, height)
             ELSE a

\* The configure-event handler: the store after it has run.
mate_ui_window_configure_event(B, hasWindow, state, st, width, height) ==
    IF B.settings = NULL
    THEN st
    ELSE IF hasWindow /\ "MAXIMIZED" \in state
    THEN st
    ELSE LET a == IF B.width_key # NULL
                  THEN g_settings_set(st, B.settings, B.width_key, width)
                  ELSE st
         IN  IF B.height_key # NULL
             THEN g_settings_set(a, B.settings, B.height_key, height)
             ELSE a

\* The window-state-event handler without its look at changed_mask.
StateEventIgnoresMask(B, st, changed_mask, new_window_state) ==
    IF B.settings = NULL \/ B.maximized_key = NULL
    THEN st
    ELSE g_settings_set(st, B.settings, B.maximized_key, "MAXIMIZED" \in new_window_state)

\* The window-state-event handler: the store after it has run.
mate_ui_window_state_event(B, st, changed_mask, new_window_state) ==
    IF B.settings = NULL \/ B.maximized_key = NULL
    THEN st
    ELSE IF "MAXIMIZED" \in changed_mask
    THEN g_settings_set(st, B.settings, B.maximized_key, "MAXIMIZED" \in new_window_state)
    ELSE st

\* The number of handlers connected to a signal of the window.
Connected(signal) == Cardinality({h \in handlers : h.signal = signal})

\* The signal emission runs every connected handler.
RECURSIVE EmitConfigure(_, _, _, _)
EmitConfigure(n, st, width, height) ==
    IF n = 0
    THEN st
    ELSE EmitConfigure(n - 1,
             mate_ui_window_configure_event(Binding, realized, gdkState, st, width, height),
             width, height)

RECURSIVE EmitState(_, _, _, _)
EmitState(n, st, changed_mask, new_window_state) ==
    IF n = 0
    THEN st
    ELSE EmitState(n - 1,
             mate_ui_window_state_event(Binding, st, changed_mask, new_window_state),
             changed_mask, new_window_state)

WidthKeys == {"width"}

HeightKeys == {"height"}

MaximizedKeys == {"maximized"}

StateBits == {"MAXIMIZED", "ICONIFIED"}

WindowBindSettings ==
    \E s \in SettingsObjs \cup {NULL}, wk \in WidthKeys \cup {NULL},
       hk \in HeightKeys \cup {NULL}, mk \in MaximizedKeys \cup {NULL} :
        LET B == mate_ui_window_bind_settings(Binding, s, wk, hk, mk)
        IN  /\ ~crashed
            /\ nextHandler < 2 * MaxBinds
            /\ wCall' = [op |-> "bind_settings", arg |-> s]
            /\ settings' = B.settings
            /\ width_key' = B.width_key
            /\ height_key' = B.height_key
            /\ maximized_key' = B.maximized_key
            /\ configure_handler' = B.configure_handler
            /\ state_handler' = B.state_handler
            /\ handlers' = B.handlers
            /\ nextHandler' = B.nextHandler
            /\ maxChanged' = (maxChanged /\ ~G_IS_SETTINGS(s))
            /\ lastBind' = IF G_IS_SETTINGS(s)
                           THEN [settings |-> s, width_key |-> wk, height_key |-> hk,
                                 maximized_key |-> mk]
                           ELSE lastBind
            /\ UNCHANGED <<layoutVars, store, realized, gdkState, nsets, accelVars, sessionVars, laterVars>>

\* The window is realized: it gets its GdkWindow.
WindowRealize ==
    /\ ~realized
    /\ realized' = TRUE
    /\ wCall' = [op |-> "realize", arg |-> NULL]
    /\ UNCHANGED <<layoutVars, bindingVars, store, gdkState, maxChanged, lastBind, nsets, accelVars,
                   sessionVars, laterVars>>

\* A configure event reaches the window.
WindowConfigureEvent ==
    \E width \in 1..MaxSize, height \in 1..MaxSize :
        /\ wCall' = [op |-> "configure-event", arg |-> <<width, height>>]
        /\ store' = EmitConfigure(Connected("configure-event"), store, width, height)
        /\ UNCHANGED <<layoutVars, bindingVars, realized, gdkState, maxChanged, lastBind, nsets,
                       accelVars, sessionVars, laterVars>>

\* GDK changes the state of the realized window and reports it: the event's
\* changed_mask is the bits that differ.
WindowStateEvent ==
    \E new_window_state \in SUBSET StateBits :
        LET changed_mask == (gdkState \ new_window_state) \cup (new_window_state \ gdkState)
        IN  /\ realized
            /\ changed_mask # {}
            /\ wCall' = [op |-> "window-state-event", arg |-> changed_mask]
            /\ gdkState' = new_window_state
            /\ store' = EmitState(Connected("window-state-event"), store, changed_mask,
                                  new_window_state)
            /\ maxChanged' = (maxChanged \/ (Connected("window-state-event") > 0
                                             /\ "MAXIMIZED" \in changed_mask))
            /\ UNCHANGED <<layoutVars, bindingVars, realized, lastBind, nsets, accelVars, sessionVars, laterVars>>

\* mate_ui_window_init, the caller's widgets as created, the window not yet
\* realized.
InitWindowRest ==
    /\ menubar = NULL
    /\ toolbar = NULL
    /\ content = NULL
    /\ statusbar = NULL
    /\ children = <<>>
    /\ refs = [w \in Widgets |-> 1]
    /\ floating = [w \in Widgets |-> w \notin CallerOwned]
    /\ crashed = FALSE
    /\ settings = NULL
    /\ width_key = NULL
    /\ height_key = NULL
    /\ maximized_key = NULL
    /\ configure_handler = 0
    /\ state_handler = 0
    /\ handlers = {}
    /\ nextHandler = 1
    /\ realized = FALSE
    /\ gdkState = {}
    /\ maxChanged = FALSE
    /\ lastBind = [settings |-> NULL, width_key |-> NULL, height_key |-> NULL,
                   maximized_key |-> NULL]
    /\ wCall = [op |-> "new", arg |-> NULL]
    /\ nsets = 0

\* The keys as the schema defaults them.
InitWindow ==
    /\ InitWindowRest
    /\ store = [s \in SettingsObjs |-> [width |-> 0, height |-> 0, maximized |-> FALSE]]

\* The keys as an earlier run of the application may have left them.
InitWindowStored ==
    /\ InitWindowRest
    /\ store \in [SettingsObjs -> [width : {0}, height : {0}, maximized : BOOLEAN]]

NextWindow ==
    \/ WindowSetMenubar
    \/ WindowSetToolbar
    \/ WindowSetContent
    \/ WindowSetStatusbar
    \/ WindowBindSettings

NextWindowSettings ==
    \/ WindowBindSettings
    \/ WindowRealize
    \/ WindowConfigureEvent
    \/ WindowStateEvent

(***************************************************************************)
(* Loading an arbitrary file into a map that binds one name: the file is   *)
(* drawn from a bounded set and mate_ui_accel_map_load is applied once.    *)
(***************************************************************************)
ArbitraryFiles == SeqsUpTo(FileChars, MaxFileLen)

InitLoad ==
    /\ accels = {<<<<"a">>, <<"a">>>>}
    /\ file \in ArbitraryFiles \cup {NoFile}
    /\ fileFrom = "foreign"
    /\ InitAccelRest

NextLoad == ncalls = 0 /\ AccelMapLoad

(***************************************************************************)
(* Saving an arbitrary map and loading the file into a new map: the map is *)
(* drawn from the maps mate_ui_accel_map_add can build out of short        *)
(* strings.                                                                *)
(***************************************************************************)
ArbitraryStrs == SeqsUpTo(FileChars, MaxRTLen)

ArbitraryMaps ==
    {m \in {{e[i] : i \in DOMAIN e} : e \in SeqsUpTo(ArbitraryStrs \X ArbitraryStrs, MaxRTEntries)} :
        \A p, q \in m : p[1] = q[1] => p = q}

InitRoundTrip ==
    /\ accels \in ArbitraryMaps
    /\ file = NoFile
    /\ fileFrom = "foreign"
    /\ InitAccelRest

NextRoundTrip ==
    \/ AccelMapSave
    \/ AccelMapNew
    \/ AccelMapLoad

(***************************************************************************)
(* The idle callback: mate_ui_session_set_idle_callback attaches a         *)
(* one-second timeout source that runs idle_check_callback.                *)
(***************************************************************************)
\* The XScreenSaver branch gives the idle time of the X server, every other
\* path the fallback 0.
mate_ui_session_get_idle_time(hasXss, idle) == IF hasXss THEN idle ELSE 0

\* idle_check_callback calling at the threshold's far side only.
IdleCheckStrict(data, idle_time) == idle_time > data.threshold

\* idle_check_callback: whether it calls data->callback(data->user_data).
idle_check_callback(data, idle_time) == idle_time >= data.threshold

IdleCallbacks == {"cb"}

IdleUserData == {"d1", "d2"}

DestroyNotifies == {"free"}

\* mate_ui_session_set_idle_callback: a NULL callback returns 0, any other
\* attaches a source and returns its id.
IdleSetCallback ==
    \E t \in 0..MaxIdle, cb \in IdleCallbacks \cup {NULL}, data \in IdleUserData,
       destroy \in DestroyNotifies \cup {NULL} :
        /\ nextSource <= MaxSources
        /\ UNCHANGED <<accelVars, sessionVars, windowVars, saveVars, restVars>>
        /\ IF cb = NULL
           THEN /\ iCall' = [op |-> "set_idle_callback", id |-> 0, called |-> FALSE]
                /\ UNCHANGED <<idleSources, nextSource, cbCalls, destroyed>>
           ELSE /\ idleSources' = idleSources \cup
                       {[source_id |-> nextSource, threshold |-> t, callback |-> cb,
                         user_data |-> data, destroy |-> destroy]}
                /\ nextSource' = nextSource + 1
                /\ cbCalls' = cbCalls @@ (nextSource :> 0)
                /\ destroyed' = destroyed @@ (nextSource :> 0)
                /\ iCall' = [op |-> "set_idle_callback", id |-> nextSource, called |-> FALSE]
        /\ UNCHANGED <<xss, userIdle>>

\* The main loop dispatches an attached source: a second has gone by.
IdleCheck ==
    \E data \in idleSources :
        LET called == idle_check_callback(data, mate_ui_session_get_idle_time(xss, userIdle))
        IN  /\ iCall' = [op |-> "check", id |-> data.source_id, called |-> called]
            /\ cbCalls' = IF called
                          THEN [cbCalls EXCEPT ![data.source_id] = Min({@ + 1, MaxCbCalls})]
                          ELSE cbCalls
            /\ UNCHANGED <<xss, userIdle, idleSources, nextSource, destroyed>>
            /\ UNCHANGED <<accelVars, sessionVars, windowVars, saveVars, restVars>>

\* The caller's g_source_remove(id): the source's destroy notify,
\* idle_callback_data_free, runs as the source goes.
IdleSourceRemove ==
    \E data \in idleSources :
        /\ idleSources' = idleSources \ {data}
        /\ destroyed' = IF data.destroy # NULL
                        THEN [destroyed EXCEPT ![data.source_id] = @ + 1]
                        ELSE destroyed
        /\ iCall' = [op |-> "source_remove", id |-> data.source_id, called |-> FALSE]
        /\ UNCHANGED <<xss, userIdle, nextSource, cbCalls>>
        /\ UNCHANGED <<accelVars, sessionVars, windowVars, saveVars, restVars>>

\* The user stays idle for another second, or touches the keyboard.
UserIdleChanges ==
    \E idle \in {0, Min({userIdle + 1, MaxIdle})} :
        /\ idle # userIdle
        /\ userIdle' = idle
        /\ iCall' = [op |-> "user", id |-> 0, called |-> FALSE]
        /\ UNCHANGED <<xss, idleSources, nextSource, cbCalls, destroyed>>
        /\ UNCHANGED <<accelVars, sessionVars, windowVars, saveVars, restVars>>

InitIdleRest ==
    /\ userIdle = 0
    /\ idleSources = {}
    /\ nextSource = 1
    /\ cbCalls = <<>>
    /\ destroyed = <<>>
    /\ iCall = [op |-> "none", id |-> 0, called |-> FALSE]

\* At rest for the other parts.
InitIdle == InitIdleRest /\ xss = FALSE

\* The build and the display either have the XScreenSaver extension or not.
InitIdleAny == InitIdleRest /\ xss \in BOOLEAN

NextIdle ==
    \/ IdleSetCallback
    \/ IdleCheck
    \/ IdleSourceRemove
    \/ UserIdleChanges

(***************************************************************************)
(* The save callback: mate_ui_session_set_save_callback keeps a            *)
(* SaveCallbackData as object data of the application.                     *)
(***************************************************************************)
SaveCallbacks == {"save_cb", "save_cb2"}

\* The application has no SaveCallbackData.
NoSaveData == [addr |-> 0, callback |-> NULL, user_data |-> NULL, destroy |-> NULL]

\* save_callback_data_free: the destroy counts after the data d is freed.
save_callback_data_free(counts, d) ==
    IF d.destroy # NULL THEN [counts EXCEPT ![d.addr] = @ + 1] ELSE counts

\* g_object_set_data_full frees the data it replaces with its notify.
SessionSetSaveCallback ==
    \E app \in Apps \cup {NULL}, cb \in SaveCallbacks, data \in IdleUserData,
       destroy \in DestroyNotifies \cup {NULL} :
        /\ nextSaveData <= MaxSaveSets
        /\ svCall' = [op |-> "set_save_callback", app |-> app]
        /\ IF app = NULL
           THEN UNCHANGED <<saveData, nextSaveData, saveCalls, saveDestroyed>>
           ELSE /\ saveData' =
                       [saveData EXCEPT ![app] =
                           [addr |-> nextSaveData, callback |-> cb, user_data |-> data,
                            destroy |-> destroy]]
                /\ nextSaveData' = nextSaveData + 1
                /\ saveCalls' = saveCalls @@ (nextSaveData :> 0)
                /\ saveDestroyed' =
                       IF saveData[app].addr # 0
                       THEN save_callback_data_free(saveDestroyed, saveData[app])
                            @@ (nextSaveData :> 0)
                       ELSE saveDestroyed @@ (nextSaveData :> 0)
        /\ UNCHANGED <<accelVars, sessionVars, windowVars, idleVars, restVars>>

\* The session manager asks the application to save its state: no function
\* of the library is connected to the request, none reads the
\* "mate-ui-save-callback" data.
SessionManagerRequestsSave ==
    \E app \in Apps :
        /\ svCall.op # "save_requested"
        /\ svCall' = [op |-> "save_requested", app |-> app]
        /\ UNCHANGED <<saveData, nextSaveData, saveCalls, saveDestroyed>>
        /\ UNCHANGED <<accelVars, sessionVars, windowVars, idleVars, restVars>>

InitSave ==
    /\ saveData = [a \in Apps |-> NoSaveData]
    /\ nextSaveData = 1
    /\ saveCalls = <<>>
    /\ saveDestroyed = <<>>
    /\ svCall = [op |-> "none", app |-> NULL]

NextSave ==
    \/ SessionSetSaveCallback
    \/ SessionManagerRequestsSave

(***************************************************************************)
(* Requests to the session manager: mate_ui_session_is_inhibited,          *)
(* _register, _request_save, _request_logout, _request_shutdown and        *)
(* _request_reboot.  Each takes the proxy and makes one synchronous D-Bus  *)
(* call; a call that returns a reply was served by the session manager.    *)
(***************************************************************************)
\* No D-Bus call was made.
NoMessage == [method |-> "none", args |-> <<>>]

GTK_IS_APPLICATION(app) == app \in Apps

\* p is the proxy; reply is what the IsInhibited call returns: a result
\* carrying a boolean, or an error.
mate_ui_session_is_inhibited(flags, p, reply) ==
    IF p = NULL
    THEN [ret |-> FALSE, asked |-> TRUE, msg |-> NoMessage]
    ELSE [ret |-> IF reply.ok THEN reply.value ELSE FALSE,
          asked |-> TRUE,
          msg |-> [method |-> "IsInhibited", args |-> <<convert_inhibit_flags(flags)>>]]

\* A register that takes every finished call for a success.
RegisterIgnoresError(app, app_id, client_id, p, reply) ==
    IF ~GTK_IS_APPLICATION(app)
    THEN [ret |-> FALSE, asked |-> FALSE, msg |-> NoMessage]
    ELSE IF p = NULL
    THEN [ret |-> FALSE, asked |-> TRUE, msg |-> NoMessage]
    ELSE [ret |-> TRUE, asked |-> TRUE,
          msg |-> [method |-> "RegisterClient", args |-> <<app_id, client_id>>]]

\* app_id is g_application_get_application_id(app).
mate_ui_session_register(app, app_id, client_id, p, reply) ==
    IF ~GTK_IS_APPLICATION(app)
    THEN [ret |-> FALSE, asked |-> FALSE, msg |-> NoMessage]
    ELSE IF p = NULL
    THEN [ret |-> FALSE, asked |-> TRUE, msg |-> NoMessage]
    ELSE [ret |-> reply.ok,
          asked |-> TRUE,
          msg |-> [method |-> "RegisterClient",
                   args |-> <<IF app_id = NULL_STR
                              THEN <<"m", "a", "t", "e", "-", "a", "p", "p", "l", "i",
                                     "c", "a", "t", "i", "o", "n">>
                              ELSE app_id,
                              IF client_id = NULL_STR THEN <<>> ELSE client_id>>]]

mate_ui_session_request_save(app, p, reply) ==
    IF ~GTK_IS_APPLICATION(app)
    THEN [ret |-> FALSE, asked |-> FALSE, msg |-> NoMessage]
    ELSE IF p = NULL
    THEN [ret |-> FALSE, asked |-> TRUE, msg |-> NoMessage]
    ELSE [ret |-> reply.ok, asked |-> TRUE,
          msg |-> [method |-> "RequestSave", args |-> <<>>]]

\* The three void requests return nothing: ret is never read.
mate_ui_session_request_logout(prompt, p) ==
    IF p = NULL
    THEN [ret |-> FALSE, asked |-> TRUE, msg |-> NoMessage]
    ELSE [ret |-> FALSE, asked |-> TRUE,
          msg |-> [method |-> "Logout", args |-> <<IF prompt THEN 0 ELSE 1>>]]

mate_ui_session_request_shutdown(prompt, p) ==
    IF p = NULL
    THEN [ret |-> FALSE, asked |-> TRUE, msg |-> NoMessage]
    ELSE [ret |-> FALSE, asked |-> TRUE, msg |-> [method |-> "Shutdown", args |-> <<>>]]

mate_ui_session_request_reboot(prompt, p) ==
    IF p = NULL
    THEN [ret |-> FALSE, asked |-> TRUE, msg |-> NoMessage]
    ELSE [ret |-> FALSE, asked |-> TRUE, msg |-> [method |-> "Reboot", args |-> <<>>]]

AppIds == {NULL_STR, <<"o">>}
ClientIds == {NULL_STR, <<"c">>}

\* What g_dbus_proxy_call_sync may return: a result, carrying a boolean that
\* only IsInhibited reads, or an error.
Replies == [ok : BOOLEAN, value : BOOLEAN]

\* One request function ran: op names it, r is what it computed with the
\* proxy get_session_manager_proxy gave, reply is what its call returned.
Requested(op, r, created, reply) ==
    /\ nreq' = nreq + 1
    \* what a step that is not taken would have done does not matter
    /\ (~r.asked \/ proxy # NULL) => created
    /\ r.msg = NoMessage => (reply.ok /\ reply.value)
    /\ (r.msg.method # "IsInhibited" \/ ~reply.ok) => reply.value
    /\ proxy' = IF r.asked THEN get_session_manager_proxy(created) ELSE proxy
    /\ smServed' = IF r.msg # NoMessage /\ reply.ok /\ r.msg.method # "IsInhibited"
                   THEN Append(smServed, r.msg)
                   ELSE smServed
    /\ rCall' = [op |-> op, ret |-> r.ret,
                 proxy |-> IF r.asked THEN get_session_manager_proxy(created) ELSE proxy,
                 asked |-> r.asked,
                 called |-> r.msg # NoMessage,
                 replied |-> r.msg # NoMessage /\ reply.ok,
                 value |-> reply.value]
    /\ UNCHANGED <<inhibitors, gtkInhibits, smInhibits, gtkNext, smNext, nextAddr, sCall, sRet,
                   smKept, regOf>>
    /\ UNCHANGED <<accelVars, windowVars, idleVars, saveVars, menuVars, appVars>>

SessionIsInhibited ==
    \E flags \in InhibitFlagSets, created \in BOOLEAN, reply \in Replies :
        /\ nreq < MaxRequests
        /\ Requested("is_inhibited",
                     mate_ui_session_is_inhibited(flags, get_session_manager_proxy(created), reply),
                     created, reply)

SessionRegister ==
    \E app \in Apps \cup {NULL}, app_id \in AppIds, client_id \in ClientIds,
       created \in BOOLEAN, reply \in Replies :
        /\ nreq < MaxRequests
        /\ app = NULL => app_id = NULL_STR
        /\ Requested("register",
                     mate_ui_session_register(app, app_id, client_id,
                                              get_session_manager_proxy(created), reply),
                     created, reply)

SessionRequestSave ==
    \E app \in Apps \cup {NULL}, created \in BOOLEAN, reply \in Replies :
        /\ nreq < MaxRequests
        /\ Requested("request_save",
                     mate_ui_session_request_save(app, get_session_manager_proxy(created), reply),
                     created, reply)

SessionRequestLogout ==
    \E prompt \in BOOLEAN, created \in BOOLEAN, reply \in Replies :
        /\ nreq < MaxRequests
        /\ Requested("request_logout",
                     mate_ui_session_request_logout(prompt, get_session_manager_proxy(created)),
                     created, reply)

SessionRequestShutdown ==
    \E prompt \in BOOLEAN, created \in BOOLEAN, reply \in Replies :
        /\ nreq < MaxRequests
        /\ Requested("request_shutdown",
                     mate_ui_session_request_shutdown(prompt, get_session_manager_proxy(created)),
                     created, reply)

SessionRequestReboot ==
    \E prompt \in BOOLEAN, created \in BOOLEAN, reply \in Replies :
        /\ nreq < MaxRequests
        /\ Requested("request_reboot",
                     mate_ui_session_request_reboot(prompt, get_session_manager_proxy(created)),
                     created, reply)

InitRequests ==
    /\ smServed = <<>>
    /\ rCall = [op |-> "none", ret |-> FALSE, proxy |-> NULL, asked |-> FALSE,
                called |-> FALSE, replied |-> FALSE, value |-> TRUE]
    /\ nreq = 0

NextRequests ==
    \/ SessionIsInhibited
    \/ SessionRegister
    \/ SessionRequestSave
    \/ SessionRequestLogout
    \/ SessionRequestShutdown
    \/ SessionRequestReboot

(***************************************************************************)
(* The application's accelerators: mate_ui_accel_map_apply_to_app and      *)
(* mate_ui_accel_clear_app_accels call                                     *)
(* gtk_application_set_accels_for_action, which replaces the accelerator   *)
(* list of one action.                                                     *)
(***************************************************************************)
gtk_application_set_accels_for_action(app_accels, action_name, accel_list) ==
    [app_accels EXCEPT ![action_name] = accel_list]

\* The loop over the hash table, visiting the bindings in the iterator's order.
RECURSIVE ApplyBindings(_, _, _)
ApplyBindings(app_accels, order, i) ==
    IF i > Len(order)
    THEN app_accels
    ELSE ApplyBindings(
             gtk_application_set_accels_for_action(app_accels, order[i][1], <<order[i][2]>>),
             order, i + 1)

\* An apply that makes the application's accelerators those of the map.
ApplyReplacesAll(map, app, app_accels, order) ==
    IF ~GTK_IS_APPLICATION(app)
    THEN app_accels
    ELSE ApplyBindings([a \in DOMAIN app_accels |-> <<>>], order, 1)

\* order is the order in which the iterator visits map->accels.
mate_ui_accel_map_apply_to_app(map, app, app_accels, order) ==
    IF ~GTK_IS_APPLICATION(app)
    THEN app_accels
    ELSE ApplyBindings(app_accels, order, 1)

mate_ui_accel_clear_app_accels(app, app_accels, action_name) ==
    IF ~GTK_IS_APPLICATION(app) \/ action_name = NULL_STR
    THEN app_accels
    ELSE gtk_application_set_accels_for_action(app_accels, action_name, <<>>)

\* A call that may change the application's accelerators and leaves the map.
AppCalled(name, app, arg) ==
    /\ ncalls < MaxCalls
    /\ ncalls' = ncalls + 1
    /\ call' = [op |-> name, name |-> arg, app |-> app]
    /\ pre' = accels
    /\ ret' = "void" /\ err' = FALSE /\ io' = "-"
    /\ UNCHANGED <<accels, file, lastEv, saved, fileFrom>>
    /\ UNCHANGED <<sessionVars, windowVars, idleVars, saveVars, menuVars, reqVars>>

AccelMapApplyToApp ==
    \E app \in Apps \cup {NULL}, order \in Orderings(accels) :
        /\ AppCalled("apply_to_app", app, NULL_STR)
        /\ appAccels' = mate_ui_accel_map_apply_to_app(accels, app, appAccels, order)

AccelClearAppAccels ==
    \E app \in Apps \cup {NULL}, n \in ActionNames \cup {NULL_STR} :
        /\ AppCalled("clear_app_accels", app, n)
        /\ appAccels' = mate_ui_accel_clear_app_accels(app, appAccels, n)

\* The application's accelerators: nothing set.
InitApp == appAccels = [a \in ActionNames |-> <<>>]

NextApp ==
    \/ AccelMapAdd
    \/ AccelMapAddEntries
    \/ AccelMapRemove
    \/ AccelMapApplyToApp
    \/ AccelClearAppAccels

(***************************************************************************)
(* Menus: mate-ui-menu.c builds a GtkMenu, a GtkMenuBar or a GMenuModel    *)
(* from arrays of MateUiMenuEntry and MateUiSubmenu.  A menu is the        *)
(* sequence of its items.                                                  *)
(***************************************************************************)
\* The NULL GtkWidget pointer an item constructor returns when it refuses.
NoItem ==
    [kind |-> "NULL", label |-> NULL_STR, action_name |-> NULL_STR,
     icon_name |-> NULL_STR, accel |-> NULL_STR]

\* Accelerator strings gtk_accelerator_parse understands.
ParsableAccels == {<<"F", "1">>}

\* The key gtk_accelerator_parse stores: 0 when the string does not parse.
gtk_accelerator_parse(accel) == IF accel \in ParsableAccels THEN 1 ELSE 0

gtk_separator_menu_item_new ==
    [kind |-> "separator", label |-> NULL_STR, action_name |-> NULL_STR,
     icon_name |-> NULL_STR, accel |-> NULL_STR]

\* Refused, as every GTK call on a NULL widget is.
gtk_widget_add_accelerator(item, accel) ==
    IF item.kind = "NULL" THEN item ELSE [item EXCEPT !.accel = accel]

mate_ui_menu_item_new_with_action(label, action_name, accel_group, accel) ==
    IF label = NULL_STR \/ action_name = NULL_STR
    THEN NoItem
    ELSE LET item == [kind |-> "item", label |-> label, action_name |-> action_name,
                      icon_name |-> NULL_STR, accel |-> NULL_STR]
         IN  IF accel # NULL_STR /\ accel_group # NULL /\ gtk_accelerator_parse(accel) # 0
             THEN gtk_widget_add_accelerator(item, accel)
             ELSE item

mate_ui_menu_item_new_with_icon(label, icon_name, action_name) ==
    IF label = NULL_STR \/ action_name = NULL_STR
    THEN NoItem
    ELSE [kind |-> "item", label |-> label, action_name |-> action_name,
          icon_name |-> icon_name, accel |-> NULL_STR]

\* gtk_menu_shell_append refuses a child that is not a menu item.
gtk_menu_shell_append(menu, item) ==
    IF item.kind = "NULL" THEN menu ELSE Append(menu, item)

\* The separator test of both builders.
IsSeparator(entry) == entry.label = NULL_STR /\ entry.action_name = NULL_STR

\* The item one turn of the loop of mate_ui_menu_new_from_entries makes.
MenuItemOf(entry, accel_group) ==
    IF IsSeparator(entry)
    THEN gtk_separator_menu_item_new
    ELSE IF entry.icon_name # NULL_STR
    THEN LET item == mate_ui_menu_item_new_with_icon(entry.label, entry.icon_name,
                                                     entry.action_name)
         IN  IF entry.accel # NULL_STR /\ accel_group # NULL
                /\ gtk_accelerator_parse(entry.accel) # 0
             THEN gtk_widget_add_accelerator(item, entry.accel)
             ELSE item
    ELSE mate_ui_menu_item_new_with_action(entry.label, entry.action_name,
                                           accel_group, entry.accel)

RECURSIVE MenuAppendEntries(_, _, _, _)
MenuAppendEntries(menu, entries, i, accel_group) ==
    IF i > Len(entries)
    THEN menu
    ELSE MenuAppendEntries(gtk_menu_shell_append(menu, MenuItemOf(entries[i], accel_group)),
                           entries, i + 1, accel_group)

\* A builder that leaves the separators out.
MenuNewWithoutSeparators(entries, accel_group) ==
    MenuAppendEntries(<<>>, SelectSeq(entries, LAMBDA e : ~IsSeparator(e)), 1, accel_group)

mate_ui_menu_new_from_entries(entries, accel_group) ==
    MenuAppendEntries(<<>>, entries, 1, accel_group)

RECURSIVE MenuBarAppendSubmenus(_, _, _, _)
MenuBarAppendSubmenus(bar, submenus, i, accel_group) ==
    IF i > Len(submenus)
    THEN bar
    ELSE LET menu_item == [kind |-> "submenu", label |-> submenus[i].label,
                           submenu |-> mate_ui_menu_new_from_entries(submenus[i].entries,
                                                                     accel_group)]
         IN  MenuBarAppendSubmenus(Append(bar, menu_item), submenus, i + 1, accel_group)

mate_ui_menu_bar_new_from_entries(submenus, accel_group) ==
    MenuBarAppendSubmenus(<<>>, submenus, 1, accel_group)

\* The copy loop that drops every '_' of a label.
RECURSIVE StripMnemonic(_)
StripMnemonic(label) ==
    IF label = <<>>
    THEN <<>>
    ELSE IF Head(label) # "_"
    THEN <<Head(label)>> \o StripMnemonic(Tail(label))
    ELSE StripMnemonic(Tail(label))

\* The GMenu item or section one turn of the inner loop appends.
ModelItemOf(entry) ==
    IF IsSeparator(entry)
    THEN [kind |-> "section", label |-> NULL_STR, action_name |-> NULL_STR,
          icon_name |-> NULL_STR, accel |-> NULL_STR]
    ELSE [kind |-> "item", label |-> StripMnemonic(entry.label),
          action_name |-> entry.action_name,
          icon_name |-> entry.icon_name, accel |-> entry.accel]

\* The loops read *p of g_strdup(label): a NULL label is a NULL dereference.
DereferencesNull(submenus) ==
    \E i \in DOMAIN submenus :
        \/ submenus[i].label = NULL_STR
        \/ \E j \in DOMAIN submenus[i].entries :
               /\ ~IsSeparator(submenus[i].entries[j])
               /\ submenus[i].entries[j].label = NULL_STR

\* What the process is left with after the NULL dereference.
Segfault == [crashed |-> TRUE, model |-> <<>>]

mate_ui_menu_model_new_from_entries(submenus) ==
    IF DereferencesNull(submenus)
    THEN Segfault
    ELSE [crashed |-> FALSE,
          model |-> [i \in DOMAIN submenus |->
                        [kind |-> "submenu",
                         label |-> StripMnemonic(submenus[i].label),
                         menu |-> [j \in DOMAIN submenus[i].entries |->
                                      ModelItemOf(submenus[i].entries[j])]]]]

\* The inputs: labels with mnemonics, action names, accelerators, icons.
MenuLabels == {NULL_STR, <<"_", "F", "_">>}
MenuActions == {NULL_STR, <<"q">>}
MenuAccels == {NULL_STR, <<"F", "1">>, <<"?">>}
MenuIcons == {NULL_STR, <<"i">>}
AccelGroups == {NULL, "accel_group"}

MenuEntries ==
    [label : MenuLabels, action_name : MenuActions, accel : MenuAccels,
     icon_name : MenuIcons]

RECURSIVE SumTo(_, _)
SumTo(lens, i) == IF i = 0 THEN 0 ELSE lens[i] + SumTo(lens, i - 1)

\* The n_entries of the submenus of an array of at most n submenus.
MenuShapes(n) ==
    {lens \in SeqsUpTo(0..MaxMenuEntries, n) : SumTo(lens, Len(lens)) <= MaxMenuTotal}

\* The array with these n_entries, these labels and these entries, in order.
SubmenuArray(lens, labels, flat) ==
    [i \in DOMAIN lens |->
        [label |-> labels[i],
         entries |-> [j \in 1..lens[i] |-> flat[SumTo(lens, i - 1) + j]]]]

\* The MateUiSubmenu arrays of at most n submenus.
SubmenuArrays(n) ==
    UNION {{SubmenuArray(lens, labels, flat) :
                labels \in [DOMAIN lens -> MenuLabels],
                flat \in [1..SumTo(lens, Len(lens)) -> MenuEntries]} :
           lens \in MenuShapes(n)}

NoMenuCall == [op |-> "none", arg |-> 0, result |-> <<>>]

\* mate_ui_menu_new_from_entries(submenus[j].entries, n_entries, accel_group)
MenuNewFromEntries ==
    \E j \in DOMAIN mSubmenus :
        /\ mCall' = [op |-> "menu_new", arg |-> j,
                     result |-> mate_ui_menu_new_from_entries(mSubmenus[j].entries, mGroup)]
        /\ UNCHANGED <<accelVars, sessionVars, windowVars, idleVars, saveVars,
                       mSubmenus, mGroup, reqVars, appVars>>

\* mate_ui_menu_bar_new_from_entries(submenus, n_submenus, accel_group)
MenuBarNewFromEntries ==
    /\ mCall' = [op |-> "menu_bar", arg |-> 0,
                 result |-> mate_ui_menu_bar_new_from_entries(mSubmenus, mGroup)]
    /\ UNCHANGED <<accelVars, sessionVars, windowVars, idleVars, saveVars,
                   mSubmenus, mGroup, reqVars, appVars>>

\* mate_ui_menu_model_new_from_entries(submenus, n_submenus)
MenuModelNewFromEntries ==
    /\ mCall' = [op |-> "menu_model", arg |-> 0,
                 result |-> mate_ui_menu_model_new_from_entries(mSubmenus)]
    /\ UNCHANGED <<accelVars, sessionVars, windowVars, idleVars, saveVars,
                   mSubmenus, mGroup, reqVars, appVars>>

\* No array, no call.
InitMenu ==
    /\ mSubmenus = <<>>
    /\ mGroup = NULL
    /\ mCall = NoMenuCall

\* Any array of submenus, with or without an accelerator group.
InitMenuAny ==
    /\ mSubmenus \in SubmenuArrays(MaxSubmenus)
    /\ mGroup \in AccelGroups
    /\ mCall = NoMenuCall

NextMenu ==
    \/ MenuNewFromEntries
    \/ MenuBarNewFromEntries
    \/ MenuModelNewFromEntries

InitRest == InitMenu /\ InitRequests /\ InitApp

(***************************************************************************)
(* Specifications: one per part of the library, the other parts at rest.   *)
(***************************************************************************)
StartAccel == InitAccel /\ InitSession /\ InitWindow /\ InitIdle /\ InitSave /\ InitRest

SpecAccel == StartAccel /\ [][NextAccel]_vars

StartSession == InitAccel /\ InitSession /\ InitWindow /\ InitIdle /\ InitSave /\ InitRest

SpecSession == StartSession /\ [][NextSession]_vars

StartLoad == InitLoad /\ InitSession /\ InitWindow /\ InitIdle /\ InitSave /\ InitRest

SpecLoad == StartLoad /\ [][NextLoad]_vars

StartRoundTrip == InitRoundTrip /\ InitSession /\ InitWindow /\ InitIdle /\ InitSave /\ InitRest

SpecRoundTrip == StartRoundTrip /\ [][NextRoundTrip]_vars

StartWindow == InitAccel /\ InitSession /\ InitWindow /\ InitIdle /\ InitSave /\ InitRest

SpecWindow == StartWindow /\ [][NextWindow]_vars

StartWindowSettings == InitAccel /\ InitSession /\ InitWindowStored /\ InitIdle /\ InitSave /\ InitRest

SpecWindowSettings == StartWindowSettings /\ [][NextWindowSettings]_vars

StartIdle == InitAccel /\ InitSession /\ InitWindow /\ InitIdleAny /\ InitSave /\ InitRest

SpecIdle == StartIdle /\ [][NextIdle]_vars

StartSave == InitAccel /\ InitSession /\ InitWindow /\ InitIdle /\ InitSave /\ InitRest

SpecSave == StartSave /\ [][NextSave]_vars

StartMenu == InitAccel /\ InitSession /\ InitWindow /\ InitIdle /\ InitSave /\ InitMenuAny /\ InitRequests /\ InitApp

SpecMenu == StartMenu /\ [][NextMenu]_vars

StartRequests == InitAccel /\ InitSession /\ InitWindow /\ InitIdle /\ InitSave /\ InitRest

SpecRequests == StartRequests /\ [][NextRequests]_vars

StartApp == InitAccel /\ InitSession /\ InitWindow /\ InitIdle /\ InitSave /\ InitRest

SpecApp == StartApp /\ [][NextApp]_vars

(***************************************************************************)
(* Properties of the accelerator map.                                      *)
(***************************************************************************)
\* The action names a state knows of.
KnownNames ==
    ActionNames \cup DOMAIN lastEv \cup {p[1] : p \in accels} \cup {p[1] : p \in pre}

\* The accelerator of the latest add of n that no later remove followed.
LatestAdd(n) == IF n \in DOMAIN lastEv THEN lastEv[n] ELSE NULL_STR

\* C1: after any sequence of add, add_entries, remove and load on one map,
\* every action name is bound to at most one accelerator, get(map, n) is the
\* accelerator of the most recent add of n that no later remove of n
\* followed (NULL when there is none), and an add or remove of n leaves the
\* binding of every other name as it was.
C1_LatestAddWins ==
    /\ \A p, q \in accels : p[1] = q[1] => p = q
    /\ \A n \in KnownNames : mate_ui_accel_map_get(accels, n) = LatestAdd(n)
    /\ call.op \in {"add", "remove"} =>
           \A m \in KnownNames \ {call.name} :
               mate_ui_accel_map_get(accels, m) = mate_ui_accel_map_get(pre, m)

\* An add has replaced the accelerator of a name while another name is bound.
C1_Witness ==
    /\ call.op = "add"
    /\ call.name # NULL_STR
    /\ mate_ui_accel_map_get(pre, call.name) # NULL_STR
    /\ mate_ui_accel_map_get(accels, call.name) # mate_ui_accel_map_get(pre, call.name)
    /\ \E m \in KnownNames \ {call.name} : mate_ui_accel_map_get(accels, m) # NULL_STR

\* C2: a load into a new, empty map of the file that save wrote gives exactly
\* the bindings of the saved map.
C2_SaveLoadRoundTrip ==
    (call.op = "load" /\ fileFrom = "save" /\ pre = {}) =>
        (ret = "TRUE" /\ accels = saved)

\* The lines of a text: the stretches between its newlines.
NewlinesOf(f) == {i \in 1..Len(f) : f[i] = "\n"}

NumLines(f) == Cardinality(NewlinesOf(f)) + 1

LineOf(f, k) ==
    LET nl == NewlinesOf(f)
        from == CHOOSE i \in nl \cup {0} : Cardinality({j \in nl : j <= i}) = k - 1
        to == CHOOSE i \in nl \cup {Len(f) + 1} : Cardinality({j \in nl : j < i}) = k - 1
    IN  SubSeq(f, from + 1, to - 1)

\* s without its leading and trailing white space.
Trimmed(s) ==
    LET ink == {i \in 1..Len(s) : ~g_ascii_isspace(s[i])}
    IN  IF ink = {} THEN <<>> ELSE SubSeq(s, Min(ink), Max(ink))

FirstEq(s) == Min({i \in 1..Len(s) : s[i] = "="})

NameOfLine(l) == Trimmed(SubSeq(l, 1, FirstEq(l) - 1))

AccelOfLine(l) == Trimmed(SubSeq(l, FirstEq(l) + 1, Len(l)))

\* A line that adds a binding: not blank, no comment, with a '=', a name
\* before it and an accelerator after it.
LineBinds(l) ==
    /\ Trimmed(l) # <<>>
    /\ Trimmed(l)[1] # "#"
    /\ \E i \in 1..Len(l) : l[i] = "="
    /\ NameOfLine(l) # <<>>
    /\ AccelOfLine(l) # <<>>

BindingLines(f) == {k \in 1..NumLines(f) : LineBinds(LineOf(f, k))}

LinesNaming(f, n) == {k \in BindingLines(f) : NameOfLine(LineOf(f, k)) = n}

\* C3: load returns TRUE for every readable file; a line that is blank after
\* trimming, a comment, without '=', or with an empty name or accelerator
\* adds nothing, and every other line adds (trimmed text before the first
\* '=', trimmed text after it), the last line for a name deciding.
C3_LoadLineByLine ==
    (call.op = "load" /\ file # NoFile) =>
        /\ ret = "TRUE"
        /\ \A p, q \in accels : p[1] = q[1] => p = q
        /\ {p[1] : p \in accels} =
               {p[1] : p \in pre} \cup {NameOfLine(LineOf(file, k)) : k \in BindingLines(file)}
        /\ \A p \in accels :
               p[2] = IF LinesNaming(file, p[1]) = {}
                      THEN mate_ui_accel_map_get(pre, p[1])
                      ELSE AccelOfLine(LineOf(file, Max(LinesNaming(file, p[1]))))

\* A load in which a later line overrode an earlier line for the same name,
\* its accelerator holding a '='.
C3_Witness ==
    /\ call.op = "load" /\ file # NoFile
    /\ \E n \in {p[1] : p \in accels} :
           /\ Cardinality(LinesNaming(file, n)) >= 2
           /\ mate_ui_accel_map_get(accels, n) = <<"=">>
           /\ AccelOfLine(LineOf(file, Min(LinesNaming(file, n)))) # <<"=">>

\* C4: a load of an unreadable file returns FALSE with the error set and
\* leaves the map as it was; a save that cannot write returns FALSE, and no
\* save changes the map.
C4_FailuresKeepMap ==
    /\ (call.op = "load" /\ io = "fail") => (ret = "FALSE" /\ err /\ accels = pre)
    /\ (call.op = "save" /\ io = "fail") => ret = "FALSE"
    /\ call.op = "save" => accels = pre

\* A load failed on a map that holds bindings.
C4_Witness == call.op = "load" /\ io = "fail" /\ pre # {} /\ ret = "FALSE"


(***************************************************************************)
(* Properties of the session inhibitor.                                    *)
(***************************************************************************)
\* What the inhibit call that returned the inhibitor at addr registered.
RegOf(addr) == CHOOSE r \in regOf : r.addr = addr

\* C5: mate_ui_session_inhibit returns a non-NULL handle exactly when the call
\* registered one inhibition, with the GtkApplication (non-zero cookie) or
\* with the session manager (Inhibit reply); the handle records the channel
\* and the cookie; when it returns NULL nothing the call registered remains.
C5_HandleIffRegistered ==
    [][sCall'.op = "inhibit" =>
          LET newGtk == gtkInhibits' \ gtkInhibits
              newSm == smInhibits' \ smInhibits
          IN  /\ sRet' # 0 <=> Cardinality(newGtk) + Cardinality(newSm) = 1
              /\ sRet' = 0 => (gtkInhibits' = gtkInhibits /\ smInhibits' = smInhibits
                               /\ inhibitors' = inhibitors)
              /\ sRet' # 0 =>
                     \E h \in inhibitors' \ inhibitors :
                         /\ h.addr = sRet'
                         /\ inhibitors' = inhibitors \cup {h}
                         /\ IF newGtk # {}
                            THEN /\ ~h.is_dbus
                                 /\ newGtk = {g \in gtkInhibits' : g.app = h.app /\ g.cookie = h.cookie}
                                 /\ h.cookie # 0
                            ELSE /\ h.is_dbus
                                 /\ newSm = {m \in smInhibits' : m.cookie = h.dbus_cookie}
    ]_vars

\* An inhibit call fell back to the session manager after gtk_application_inhibit
\* returned 0, while an earlier GTK inhibition is still held.
C5_Witness ==
    /\ sCall.op = "inhibit"
    /\ sRet # 0
    /\ \E h \in inhibitors : h.addr = sRet /\ h.is_dbus /\ RegOf(sRet).app # NULL
    /\ \E h \in inhibitors : ~h.is_dbus

\* The inhibitions the step removes.
GtkRemoved == gtkInhibits \ gtkInhibits'

SmRemoved == smInhibits \ smInhibits'

\* The step removes exactly what the inhibit call of the inhibitor at addr
\* registered, through the channel that registered it.
RemovesRegistrationOf(addr) ==
    LET r == RegOf(addr)
    IN  /\ gtkInhibits' \subseteq gtkInhibits /\ smInhibits' \subseteq smInhibits
        /\ r.gtk => /\ SmRemoved = {}
                    /\ GtkRemoved = {g \in gtkInhibits : g.app = r.app /\ g.cookie = r.gtkCookie}
                    /\ GtkRemoved # {}
        /\ r.sm => /\ GtkRemoved = {}
                   /\ SmRemoved = {m \in smInhibits : m.cookie = r.smCookie}
                   /\ SmRemoved # {}

\* C6 as stated: uninhibit of a returned handle removes exactly the inhibition
\* the handle registered, through its channel; once every returned handle has
\* been uninhibited no inhibition of the library remains; uninhibit(NULL)
\* does nothing.
C6_UninhibitAlwaysReleases ==
    /\ [](inhibitors = {} => (gtkInhibits = {} /\ smInhibits = {}))
    /\ [][sCall'.op = "uninhibit" => RemovesRegistrationOf(sCall'.arg)]_vars
    /\ [][sCall'.op = "uninhibit_null" =>
              UNCHANGED <<inhibitors, gtkInhibits, smInhibits, proxy>>]_vars

\* C6 as the code has it: the same, except that a D-Bus handle whose Uninhibit
\* call returns an error is freed with its inhibition left at the session
\* manager; what remains once every handle has been uninhibited is exactly
\* the inhibitions of those failed calls.
C6_UninhibitReleasesUnlessError ==
    /\ [](inhibitors = {} =>
              (gtkInhibits = {} /\ {m.cookie : m \in smInhibits} = smKept))
    /\ [][sCall'.op = "uninhibit" =>
              /\ inhibitors' = {h \in inhibitors : h.addr # sCall'.arg}
              /\ IF smKept' # smKept
                 THEN /\ RegOf(sCall'.arg).sm
                      /\ smKept' = smKept \cup {RegOf(sCall'.arg).smCookie}
                      /\ gtkInhibits' = gtkInhibits /\ smInhibits' = smInhibits
                 ELSE RemovesRegistrationOf(sCall'.arg)]_vars
    /\ [][sCall'.op = "uninhibit_null" =>
              UNCHANGED <<inhibitors, gtkInhibits, smInhibits, proxy>>]_vars

\* Every handle has been uninhibited: a GTK one, a D-Bus one whose Uninhibit
\* was answered and a D-Bus one whose Uninhibit returned an error.
C6_Witness ==
    /\ sCall.op = "uninhibit"
    /\ inhibitors = {}
    /\ \E r \in regOf : r.gtk
    /\ \E r \in regOf : r.sm /\ r.smCookie \in smKept
    /\ \E r \in regOf : r.sm /\ r.smCookie \notin smKept

(***************************************************************************)
(* Properties of the window's layout and slots.                            *)
(***************************************************************************)
\* The sequence without the later occurrences of an element.
RECURSIVE Once(_)
Once(q) ==
    IF q = <<>>
    THEN <<>>
    ELSE LET front == Once(SubSeq(q, 1, Len(q) - 1))
             last == q[Len(q)]
         IN  IF \E i \in DOMAIN front : front[i] = last THEN front ELSE Append(front, last)

\* The currently set widgets, each once, in the order menubar, toolbar,
\* content, statusbar.
SetWidgets == Once(SelectSeq(<<menubar, toolbar, content, statusbar>>, LAMBDA w : w # NULL))

\* C7: after any sequence of the four setters the children of main_box are
\* exactly the currently set non-NULL widgets, each once, in the order
\* menubar, toolbar, content, statusbar.
C7_ChildrenAreSetWidgets == ~crashed => children = SetWidgets

SlotOps == {"set_menubar", "set_toolbar", "set_content", "set_statusbar"}

\* The value of the slot a setter is about.
SlotOf(op) ==
    CASE op = "set_menubar" -> menubar
      [] op = "set_toolbar" -> toolbar
      [] op = "set_content" -> content
      [] op = "set_statusbar" -> statusbar

\* The arguments the claim is about: NULL for every slot, a GtkMenuBar as
\* menubar, a GtkToolbar as toolbar, a widget as content and as statusbar.
InDomain(op, w) ==
    CASE op = "set_menubar" -> w = NULL \/ w \in MenuBars
      [] op = "set_toolbar" -> w = NULL \/ w \in Toolbars
      [] OTHER -> w = NULL \/ w \in Widgets

\* The arguments the setters take: those, but not NULL as content.
Taken(op, w) == InDomain(op, w) /\ ~(op = "set_content" /\ w = NULL)

\* The step is a call of the setter wCall' names: if the call is taken the
\* slot holds the argument and else what it held; the other three slots and
\* the settings binding are as before; nothing at all changes when the
\* argument is what the slot holds.
SetterStep(taken) ==
    LET op == wCall'.op
        w == wCall'.arg
        after(o, old) == IF op = o /\ taken THEN w ELSE old
    IN  /\ menubar' = after("set_menubar", menubar)
        /\ toolbar' = after("set_toolbar", toolbar)
        /\ content' = after("set_content", content)
        /\ statusbar' = after("set_statusbar", statusbar)
        /\ UNCHANGED <<bindingVars, gdkVars>>
        /\ SlotOf(op) = w => UNCHANGED layoutVars

\* A new window has four NULL slots and only the setters change a slot.
SlotsOnlySet ==
    /\ [](wCall.op = "new" =>
              (menubar = NULL /\ toolbar = NULL /\ content = NULL /\ statusbar = NULL))
    /\ [][wCall'.op \notin SlotOps => UNCHANGED <<menubar, toolbar, content, statusbar>>]_vars

\* C8 as stated: every slot holds what the latest call of its setter passed,
\* NULL included, for all four slots.
C8_SlotHoldsLastArgument ==
    /\ SlotsOnlySet
    /\ [][(wCall'.op \in SlotOps /\ InDomain(wCall'.op, wCall'.arg)) => SetterStep(TRUE)]_vars

\* C8 as the code has it: each getter returns the argument of the latest
\* call its setter took, NULL for a new window and after menubar, toolbar or
\* statusbar was set to NULL; mate_ui_window_set_content(window, NULL) is
\* refused and leaves the content in place, as does a menubar or toolbar of
\* the wrong type; a setter call changes only its own slot, never the other
\* three or the settings binding, and nothing when the slot holds the widget.
C8_SlotHoldsLastTakenArgument ==
    /\ SlotsOnlySet
    /\ [][wCall'.op \in SlotOps => SetterStep(Taken(wCall'.op, wCall'.arg))]_vars

\* set_content(NULL) was called on a window with content, a menubar and a
\* settings binding.
C8_Witness ==
    /\ wCall = [op |-> "set_content", arg |-> NULL]
    /\ content # NULL
    /\ menubar # NULL
    /\ settings # NULL
    /\ ~crashed

(***************************************************************************)
(* Properties of the settings binding.                                     *)
(***************************************************************************)
Maximized == realized /\ "MAXIMIZED" \in gdkState

\* The store after value was written under key of the bound settings object,
\* if key is not NULL.
Written(st, key, value) ==
    [s \in SettingsObjs |->
        [k \in DOMAIN st[s] |-> IF s = settings /\ k = key THEN value ELSE st[s][k]]]

\* C9: on a bound window a configure event handled while the window is not
\* maximized writes its width under width_key and its height under
\* height_key, each if the key is not NULL, and nothing else; one handled
\* while the window is maximized writes nothing.
C9_ConfigureWritesUnlessMaximized ==
    [][(wCall'.op = "configure-event" /\ settings # NULL) =>
          IF Maximized
          THEN store' = store
          ELSE store' = Written(Written(store, width_key, wCall'.arg[1]),
                                height_key, wCall'.arg[2])]_vars

\* A configure event arrived while the window was maximized and the stored
\* size is the one of an earlier event, not its own.
C9_Witness ==
    /\ wCall.op = "configure-event"
    /\ Maximized
    /\ settings # NULL /\ width_key # NULL /\ height_key # NULL
    /\ store[settings][width_key] \notin {0, wCall.arg[1]}
    /\ store[settings][height_key] \notin {0, wCall.arg[2]}

\* C10: on a window bound with a maximized_key, a window-state event whose
\* changed mask has MAXIMIZED writes the new bit under the key and nothing
\* else, one whose mask has not writes nothing; so from the first such change
\* on the stored boolean is the window's maximized state.  With
\* maximized_key NULL a state event writes nothing.
C10_StateEventWritesMaximized ==
    /\ [][(wCall'.op = "window-state-event" /\ settings # NULL) =>
             IF maximized_key # NULL /\ "MAXIMIZED" \in wCall'.arg
             THEN store' = Written(store, maximized_key, "MAXIMIZED" \in gdkState')
             ELSE store' = store]_vars
    /\ []((maxChanged /\ settings # NULL /\ maximized_key # NULL) =>
             store[settings][maximized_key] = ("MAXIMIZED" \in gdkState))

\* The window was maximized, which was stored, and then iconified, which
\* left the stored TRUE alone.
C10_Witness ==
    /\ wCall.op = "window-state-event"
    /\ wCall.arg = {"ICONIFIED"}
    /\ maxChanged
    /\ settings # NULL /\ maximized_key # NULL
    /\ "MAXIMIZED" \in gdkState
    /\ store[settings][maximized_key] = TRUE

\* The keys of the latest bind_settings call taken.
LastKeys == {lastBind.width_key, lastBind.height_key, lastBind.maximized_key} \ {NULL}

\* The keys of the settings objects whose value the step changes.
Rewritten == {<<s, k>> \in SettingsObjs \X DOMAIN store["gs1"] : store'[s][k] # store[s][k]}

\* C11: once bind_settings has been called, exactly one configure-event
\* handler and one window-state-event handler are connected, and an event
\* writes only to the settings object and the keys of the most recent call;
\* before the first call nothing is connected and no event writes anything.
C11_OneBindingAtATime ==
    /\ [](IF lastBind.settings = NULL
          THEN handlers = {}
          ELSE /\ Connected("configure-event") = 1
               /\ Connected("window-state-event") = 1
               /\ {h.id : h \in handlers} = {configure_handler, state_handler})
    /\ [][wCall'.op \in {"configure-event", "window-state-event"} =>
             IF lastBind.settings = NULL
             THEN store' = store
             ELSE \A p \in Rewritten : p[1] = lastBind.settings /\ p[2] \in LastKeys]_vars

\* After a second binding, to another settings object, an event has written
\* to it, and the first object keeps what was written while it was bound.
C11_Witness ==
    /\ lastBind.settings = "gs2"
    /\ nextHandler > 3
    /\ wCall.op = "configure-event"
    /\ store["gs1"].width = 1
    /\ store["gs2"].width = 2

(***************************************************************************)
(* Properties of the idle callback.                                        *)
(***************************************************************************)
\* The attached source with the id.
SourceOf(id) == CHOOSE d \in idleSources : d.source_id = id

AttachedIds == {d.source_id : d \in idleSources}

\* What holds of the sources whatever idle time the checks see: a source
\* stays attached and is checked until g_source_remove, which calls a
\* non-NULL destroy once on its user_data; a removed source's callback is not
\* called again and nothing is destroyed twice.
IdleSourceLifetime ==
    /\ [][iCall'.op # "source_remove" => idleSources \subseteq idleSources']_vars
    /\ [][iCall'.op = "source_remove" =>
             /\ iCall'.id \in AttachedIds
             /\ idleSources' = idleSources \ {SourceOf(iCall'.id)}
             /\ destroyed' = [destroyed EXCEPT ![iCall'.id] =
                                 IF SourceOf(iCall'.id).destroy # NULL THEN 1 ELSE 0]]_vars
    /\ [][\A id \in DOMAIN cbCalls \ AttachedIds : cbCalls'[id] = cbCalls[id]]_vars
    /\ [](\A id \in DOMAIN destroyed :
              destroyed[id] <= 1 /\ (id \in AttachedIds => destroyed[id] = 0))
    /\ [][iCall'.op = "check" =>
             /\ iCall'.id \in AttachedIds
             /\ cbCalls' = IF iCall'.called
                           THEN [cbCalls EXCEPT ![iCall'.id] = Min({@ + 1, MaxCbCalls})]
                           ELSE cbCalls]_vars

SaveCallbackReplaced ==
    /\ [][(svCall'.op = "set_save_callback" /\ svCall'.app # NULL) =>
             LET old == saveData[svCall'.app]
             IN  /\ saveData'[svCall'.app].addr \notin {0, old.addr}
                 /\ \A a \in DOMAIN saveDestroyed :
                        saveDestroyed'[a] =
                            IF a = old.addr /\ old.destroy # NULL THEN 1 ELSE saveDestroyed[a]]_vars
    /\ [](\A a \in DOMAIN saveDestroyed : saveDestroyed[a] <= 1)

\* C13: the callback set for the application is called when the session
\* manager requests the application to save its state, and a later
\* set_save_callback replaces it, destroying the earlier data once.
C13_SaveCallbackCalled ==
    /\ SaveCallbackReplaced
    /\ [][(svCall'.op = "save_requested" /\ saveData[svCall'.app].addr # 0) =>
             saveCalls'[saveData[svCall'.app].addr] = saveCalls[saveData[svCall'.app].addr] + 1]_vars

(***************************************************************************)
(* Menus built from entries.                                               *)
(***************************************************************************)
\* An entry with exactly one of label and action_name NULL.
HalfNull(entry) == (entry.label = NULL_STR) # (entry.action_name = NULL_STR)

\* The menu has one item per entry, in order: a separator for a separator
\* entry, an item bound to the entry's action otherwise.
ItemsFollow(menu, entries) ==
    /\ Len(menu) = Len(entries)
    /\ \A i \in DOMAIN entries :
           IF IsSeparator(entries[i])
           THEN menu[i].kind = "separator"
           ELSE menu[i].kind = "item" /\ menu[i].action_name = entries[i].action_name

\* The entries the item constructors take.
Taken14(entries) == SelectSeq(entries, LAMBDA e : ~HalfNull(e))

\* C14 as stated: the menu of mate_ui_menu_new_from_entries has exactly
\* n_entries items in array order, item i a separator exactly when entry i has
\* label and action_name NULL and otherwise an item bound to the entry's
\* action_name; the menu bar has exactly n_submenus items in array order, item j
\* carrying the menu built from the entries of submenu j.
C14_MenuHasEveryEntry ==
    /\ mCall.op = "menu_new" =>
           ItemsFollow(mCall.result, mSubmenus[mCall.arg].entries)
    /\ mCall.op = "menu_bar" =>
           /\ Len(mCall.result) = Len(mSubmenus)
           /\ \A j \in DOMAIN mSubmenus :
                  /\ mCall.result[j].label = mSubmenus[j].label
                  /\ ItemsFollow(mCall.result[j].submenu, mSubmenus[j].entries)

\* C14 (amended): the menu has one item, in array order, for every entry that
\* is a separator or has both label and action_name non-NULL -- a separator
\* for the former, an item bound to the entry's action_name for the latter --
\* and no item for an entry with exactly one of the two NULL; the menu bar
\* has exactly n_submenus items in array order, item j carrying such a menu
\* for the entries of submenu j.
C14_MenuHasEveryTakenEntry ==
    /\ mCall.op = "menu_new" =>
           ItemsFollow(mCall.result, Taken14(mSubmenus[mCall.arg].entries))
    /\ mCall.op = "menu_bar" =>
           /\ Len(mCall.result) = Len(mSubmenus)
           /\ \A j \in DOMAIN mSubmenus :
                  /\ mCall.result[j].label = mSubmenus[j].label
                  /\ ItemsFollow(mCall.result[j].submenu, Taken14(mSubmenus[j].entries))

\* A menu bar was built from a submenu of an action entry followed by a
\* separator, and holds both.
C14_Witness ==
    /\ mCall.op = "menu_bar"
    /\ Len(mSubmenus) = 1
    /\ Len(mSubmenus[1].entries) = 2
    /\ ~IsSeparator(mSubmenus[1].entries[1])
    /\ ~HalfNull(mSubmenus[1].entries[1])
    /\ IsSeparator(mSubmenus[1].entries[2])
    /\ Len(mCall.result[1].submenu) = 2

\* The characters of a label that are not '_', in order.
NoUnderscore(label) == SelectSeq(label, LAMBDA c : c # "_")

\* The GMenu holds one item per non-separator entry, in order, with the
\* entry's label without '_', its action, its icon and its accel.
ModelItemsFollow(menu, entries) ==
    LET items == SelectSeq(menu, LAMBDA m : m.kind = "item")
        named == SelectSeq(entries, LAMBDA e : ~IsSeparator(e))
    IN  /\ Len(items) = Len(named)
        /\ \A k \in DOMAIN named :
               /\ items[k].label = NoUnderscore(named[k].label)
               /\ items[k].action_name = named[k].action_name
               /\ items[k].icon_name = named[k].icon_name
               /\ items[k].accel = named[k].accel

ModelFollows(model, submenus) ==
    /\ Len(model) = Len(submenus)
    /\ \A i \in DOMAIN submenus :
           /\ model[i].label = NoUnderscore(submenus[i].label)
           /\ ModelItemsFollow(model[i].menu, submenus[i].entries)

\* C15: mate_ui_menu_model_new_from_entries returns a model with one submenu
\* per element of submenus, in array order, labelled with the submenu label
\* without its '_' characters; inside it every non-separator entry gives one
\* item, in array order, with the entry's label without '_', its action name,
\* its icon when icon_name is non-NULL and its accel when accel is non-NULL.
C15_ModelFollowsSubmenus ==
    mCall.op = "menu_model" =>
        /\ ~mCall.result.crashed
        /\ ModelFollows(mCall.result.model, mSubmenus)

\* The same for the arrays whose submenu labels and non-separator entry labels
\* are all non-NULL: the function returns and the model is as described.
ModelFollowsLabelledSubmenus ==
    (mCall.op = "menu_model" /\ ~DereferencesNull(mSubmenus)) =>
        /\ ~mCall.result.crashed
        /\ ModelFollows(mCall.result.model, mSubmenus)

(***************************************************************************)
(* Requests to the session manager.                                        *)
(***************************************************************************)
\* The request could not be served: no proxy could be created, or the call
\* returned an error.
RequestFailed(c) == (c.asked /\ c.proxy = NULL) \/ (c.called /\ ~c.replied)

\* C16: when the proxy cannot be created or the D-Bus call returns an error,
\* is_inhibited, register and request_save return FALSE, and request_logout,
\* request_shutdown and request_reboot return with nothing served by the
\* session manager; register and request_save return TRUE exactly when their
\* call returned a reply, and is_inhibited returns the boolean of its reply.
C16_RequestsFailQuietly ==
    [][ /\ (rCall'.op \in {"is_inhibited", "register", "request_save"} /\ RequestFailed(rCall'))
            => rCall'.ret = FALSE
        /\ (rCall'.op \in {"request_logout", "request_shutdown", "request_reboot"}
            /\ RequestFailed(rCall'))
            => smServed' = smServed
        /\ rCall'.op \in {"register", "request_save"} => (rCall'.ret <=> rCall'.replied)
        /\ (rCall'.op = "is_inhibited" /\ rCall'.replied) => rCall'.ret = rCall'.value
      ]_vars

\* A register whose call returned an error, after a request that was served.
C16_Witness ==
    /\ rCall.op = "register"
    /\ rCall.called
    /\ ~rCall.replied
    /\ ~rCall.ret
    /\ smServed # <<>>

(***************************************************************************)
(* Applying the map to the application.                                    *)
(***************************************************************************)
\* The action has a binding in the map.
Bound(map, a) == \E p \in map : p[1] = a

\* C17: after mate_ui_accel_map_apply_to_app(map, app) the application's
\* accelerators for every action the map binds are the one-element list of
\* the bound accelerator, those of every other action are as before, and the
\* map is unchanged; an action's accelerators in the application change only
\* with an apply while the map binds the action or with a
\* mate_ui_accel_clear_app_accels for it, so an action applied earlier and then
\* removed from the map keeps its accelerator until it is cleared.
C17_ApplySetsBoundOnly ==
    [][ /\ (call'.op = "apply_to_app" /\ call'.app # NULL) =>
               /\ \A p \in accels : appAccels'[p[1]] = <<p[2]>>
               /\ \A a \in ActionNames : ~Bound(accels, a) => appAccels'[a] = appAccels[a]
               /\ accels' = accels
        /\ \A a \in ActionNames :
               appAccels'[a] # appAccels[a] =>
                   \/ call'.op = "apply_to_app" /\ Bound(accels, a)
                   \/ call'.op = "clear_app_accels" /\ call'.name = a
      ]_vars

\* The map was applied again after an applied action was removed from it: the
\* action still has its accelerator in the application.
C17_Witness ==
    /\ call.op = "apply_to_app"
    /\ call.app # NULL
    /\ \E a \in ActionNames : ~Bound(accels, a) /\ appAccels[a] # <<>>
    /\ \E a \in ActionNames : Bound(accels, a) /\ appAccels[a] # <<>>

=============================================================================
